---- MODULE Spec2Model ----
(***************************************************************************)
(* HVAC transactive agent (tesp_support/dsot/hvac_new_agent.py): the ETP   *)
(* state-space simulator with thermostat hysteresis, the AssetState value  *)
(* object, and the real-time bidding strategy.                             *)
(*                                                                         *)
(* Real numbers are fixed-point integers with SCALE units per 1.0; every   *)
(* product and quotient is rounded to the nearest unit, as a float         *)
(* operation rounds to the nearest representable value.                    *)
(***************************************************************************)
EXTENDS Integers, Sequences, FiniteSets, TLC

\* ------------------------------------------------------------------------
\* Fixed-point arithmetic
\* ------------------------------------------------------------------------
SCALE == 10 * 10 * 10

Fx(n) == n * SCALE

Abs(a) == IF a < 0 THEN 0 - a ELSE a

\* floor(n / d), d # 0
IDiv(n, d) == IF d > 0 THEN n \div d ELSE (0 - n) \div (0 - d)

\* n / d rounded to the nearest integer, d # 0
RDiv(n, d) ==
    IF d > 0 THEN (2 * n + d) \div (2 * d)
    ELSE (2 * (0 - n) + (0 - d)) \div (2 * (0 - d))

\* a * b of two fixed-point numbers; the operands are split so that no
\* partial product leaves the 32-bit range
FMul(a, b) ==
    LET ah == a \div SCALE
        al == a % SCALE
        bh == b \div SCALE
        bl == b % SCALE
    IN  ah * bh * SCALE + ah * bl + al * bh + ((2 * al * bl + SCALE) \div (2 * SCALE))

\* a / b of two fixed-point numbers, b # 0; the whole part of the quotient
\* is taken first so that no intermediate value leaves the 32-bit range
FDiv(a, b) ==
    LET n == IF b > 0 THEN a ELSE 0 - a
        d == Abs(b)
    IN  (n \div d) * SCALE + RDiv((n % d) * SCALE, d)

\* ------------------------------------------------------------------------
\* 2x2 matrices <<<<a, b>>, <<c, d>>>> and 2-vectors <<x, y>> (numpy arrays)
\* ------------------------------------------------------------------------
Zeros22 == <<<<0, 0>>, <<0, 0>>>>

Zeros21 == <<0, 0>>

Eye22 == <<<<SCALE, 0>>, <<0, SCALE>>>>

MAdd(M, N) ==
    << <<M[1][1] + N[1][1], M[1][2] + N[1][2]>>,
       <<M[2][1] + N[2][1], M[2][2] + N[2][2]>> >>

\* np.dot(M, N)
MMul(M, N) ==
    << <<FMul(M[1][1], N[1][1]) + FMul(M[1][2], N[2][1]),
         FMul(M[1][1], N[1][2]) + FMul(M[1][2], N[2][2])>>,
       <<FMul(M[2][1], N[1][1]) + FMul(M[2][2], N[2][1]),
         FMul(M[2][1], N[1][2]) + FMul(M[2][2], N[2][2])>> >>

\* np.dot(M, v)
MVec(M, v) ==
    <<FMul(M[1][1], v[1]) + FMul(M[1][2], v[2]),
      FMul(M[2][1], v[1]) + FMul(M[2][2], v[2])>>

\* M * s, s a fixed-point scalar
MScale(M, s) ==
    << <<FMul(M[1][1], s), FMul(M[1][2], s)>>,
       <<FMul(M[2][1], s), FMul(M[2][2], s)>> >>

\* M / k, k a plain integer
MDivInt(M, k) ==
    << <<RDiv(M[1][1], k), RDiv(M[1][2], k)>>,
       <<RDiv(M[2][1], k), RDiv(M[2][2], k)>> >>

VAdd(v, w) == <<v[1] + w[1], v[2] + w[2]>>

VSub(v, w) == <<v[1] - w[1], v[2] - w[2]>>

Det22(M) == FMul(M[1][1], M[2][2]) - FMul(M[1][2], M[2][1])

\* np.linalg.inv of a non-singular 2x2 matrix
Inv22(M) ==
    LET d == Det22(M)
    IN  <<<<FDiv(M[2][2], d), FDiv(0 - M[1][2], d)>>,
          <<FDiv(0 - M[2][1], d), FDiv(M[1][1], d)>>>>

\* scipy.linalg.expm: the matrix exponential, here its series
\* I + M + M^2/2! + M^3/3! + M^4/4! + M^5/5! (exact to the fixed-point unit
\* for the step sizes used)
Expm(M) ==
    LET M2 == MMul(M, M)
        M3 == MMul(M2, M)
        M4 == MMul(M3, M)
        M5 == MMul(M4, M)
    IN  MAdd(Eye22, MAdd(M, MAdd(MDivInt(M2, 2), MAdd(MDivInt(M3, 6),
             MAdd(MDivInt(M4, 24), MDivInt(M5, 120))))))

\* ------------------------------------------------------------------------
\* Enumerations (members are named "<Enum>.<MEMBER>"; a plain Python string
\* such as 'Heating' is a different value and never equals a member)
\* ------------------------------------------------------------------------
UNDEFINED == "ThermoStatMode.UNDEFINED"

OFF == "ThermoStatMode.OFF"

COOLING == "ThermoStatMode.COOLING"

HEATING == "ThermoStatMode.HEATING"

ThermoStatMode == {UNDEFINED, OFF, COOLING, HEATING}

HeatingSystemType ==
    {"HeatingSystemType.NONE", "HeatingSystemType.GAS",
     "HeatingSystemType.ELECTRIC", "HeatingSystemType.HEAT_PUMP"}

\* ------------------------------------------------------------------------
\* HVACDSOTAssetState: an object is its attribute dictionary (__dict__), a
\* function from attribute names to values.  Reading an attribute that is
\* not in the dictionary raises AttributeError.
\* ------------------------------------------------------------------------
HVACDSOTAssetState_defaults ==
    [indoor_air_temp |-> 0, mass_temperature |-> 0, hvac_kW |-> 0, wh_kW |-> 0,
     house_kW |-> 0, mtr_v |-> 0, hvac_on |-> FALSE, thermostat_mode |-> UNDEFINED]

HasAttr(obj, name) == name \in DOMAIN obj

\* setattr(obj, name, value)
SetAttr(obj, name, value) ==
    [k \in DOMAIN obj \cup {name} |-> IF k = name THEN value ELSE obj[k]]

\* self.__dict__.update(other_obj.__dict__)
DictUpdate(self, other) ==
    [k \in DOMAIN self \cup DOMAIN other |-> IF k \in DOMAIN other THEN other[k] ELSE self[k]]

\* a copy that carries over only the attributes the constructor declares
copy_attributes_from_declared(self, other_obj) ==
    [k \in DOMAIN self |-> IF k \in DOMAIN other_obj THEN other_obj[k] ELSE self[k]]

\* copy_attributes_from(other_obj); other_obj is an HVACDSOTAssetState
copy_attributes_from(self, other_obj) == DictUpdate(self, other_obj)

\* HVACDSOTAssetState(source_obj = s)
HVACDSOTAssetState(source_obj) ==
    copy_attributes_from(HVACDSOTAssetState_defaults, source_obj)

\* the identity of the object a constructor call HVACDSOTAssetState(...)
\* returns, when object 1 exists: a new object
NewStateObject == 2

\* ------------------------------------------------------------------------
\* HVACDSOTAssetModel
\* ------------------------------------------------------------------------
\* __init__: the matrices start as zeros; UA, CA, HM, CM are read once from
\* the structure model and Qa_On, Qa_Off, Qm once from the environment model
HVACDSOTAssetModel(heating_system_type, etp, env) ==
    [heating_system_type |-> heating_system_type,
     A_ETP |-> Zeros22, B_ETP_ON |-> Zeros21, B_ETP_OFF |-> Zeros21, AEI |-> Zeros22,
     CA |-> etp.CA, UA |-> etp.UA, CM |-> etp.CM, HM |-> etp.HM,
     Qa_On |-> env.Qa_ON, Qa_Off |-> env.Qa_OFF, Qm |-> env.Qm]

\* calc_AEI up to (not including) the matrix inversion
calc_AEI_fill(self, env) ==
    LET a1 == IF self.CA # 0
              THEN [self EXCEPT
                      !.A_ETP[1][1] = FDiv(0 - (self.UA + self.HM), self.CA),
                      !.A_ETP[1][2] = FDiv(self.HM, self.CA),
                      !.B_ETP_ON[1] = FDiv(FMul(self.UA, env.outside_air_temperature), self.CA)
                                      + FDiv(self.Qa_On, self.CA),
                      !.B_ETP_OFF[1] = FDiv(FMul(self.UA, env.outside_air_temperature), self.CA)
                                      + FDiv(self.Qa_Off, self.CA)]
              ELSE self
    IN  IF self.CM # 0
        THEN [a1 EXCEPT
                !.A_ETP[2][1] = FDiv(self.HM, self.CM),
                !.A_ETP[2][2] = FDiv(0 - self.HM, self.CM),
                !.B_ETP_ON[2] = FDiv(self.Qm, self.CM),
                !.B_ETP_OFF[2] = FDiv(self.Qm, self.CM)]
        ELSE a1

\* calc_AEI: [exc, self]; np.linalg.inv raises LinAlgError on a singular
\* matrix, after A_ETP and the B vectors were already written
calc_AEI(self, env) ==
    LET a == calc_AEI_fill(self, env)
    IN  IF Det22(a.A_ETP) = 0
        THEN [exc |-> "LinAlgError", self |-> a]
        ELSE [exc |-> "", self |-> [a EXCEPT !.AEI = Inv22(a.A_ETP)]]

\* the propagated state vector of one step: x_new = AEI.expm(A.dt).(A.x + B) - AEI.B
PropagateWith(AIET, A_ETP, AEI, B, x) ==
    LET AEx == MVec(A_ETP, x)
        AxB == VAdd(AEx, B)
        AIB == MVec(AEI, B)
        AExB == MVec(AIET, AxB)
    IN  VSub(AExB, AIB)

\* AIET = AEI.expm(A.dt)
StepMatrix(A_ETP, AEI, step) == MMul(AEI, Expm(MScale(A_ETP, step)))

Propagate(A_ETP, AEI, B, x, step) ==
    PropagateWith(StepMatrix(A_ETP, AEI, step), A_ETP, AEI, B, x)

\* deadband / 2.0
HalfBand(temperatures) == FDiv(temperatures.deadband, 2 * SCALE)

\* hysteresis whose running branch tests the edges of the idle branch
Hysteresis_mirrored(hvac_on, T, thermostat_mode, temperatures) ==
    IF \/ (T > temperatures.cooling_setpoint + HalfBand(temperatures)
           /\ thermostat_mode = COOLING)
       \/ (T < temperatures.heating_setpoint - HalfBand(temperatures)
           /\ thermostat_mode = HEATING)
    THEN ~hvac_on
    ELSE hvac_on

\* hysteresis that does not look at the thermostat mode
Hysteresis_modeless(hvac_on, T, thermostat_mode, temperatures) ==
    IF hvac_on = TRUE
    THEN IF \/ T < temperatures.cooling_setpoint - HalfBand(temperatures)
            \/ T > temperatures.heating_setpoint + HalfBand(temperatures)
         THEN FALSE
         ELSE hvac_on
    ELSE IF \/ T > temperatures.cooling_setpoint + HalfBand(temperatures)
            \/ T < temperatures.heating_setpoint - HalfBand(temperatures)
         THEN TRUE
         ELSE hvac_on

\* hysteresis whose running branch switches off at the edge it switched on at
Hysteresis_sameEdge(hvac_on, T, thermostat_mode, temperatures) ==
    IF hvac_on = TRUE
    THEN IF \/ (T < temperatures.cooling_setpoint + HalfBand(temperatures)
                /\ thermostat_mode = COOLING)
            \/ (T > temperatures.heating_setpoint - HalfBand(temperatures)
                /\ thermostat_mode = HEATING)
         THEN FALSE
         ELSE hvac_on
    ELSE IF \/ (T > temperatures.cooling_setpoint + HalfBand(temperatures)
                /\ thermostat_mode = COOLING)
            \/ (T < temperatures.heating_setpoint - HalfBand(temperatures)
                /\ thermostat_mode = HEATING)
         THEN TRUE
         ELSE hvac_on

\* the thermostat hysteresis of simulate_time_step: the new hvac_on
Hysteresis(hvac_on, T, thermostat_mode, temperatures) ==
    IF hvac_on = TRUE
    THEN IF \/ (T < temperatures.cooling_setpoint - HalfBand(temperatures)
                /\ thermostat_mode = COOLING)
            \/ (T > temperatures.heating_setpoint + HalfBand(temperatures)
                /\ thermostat_mode = HEATING)
         THEN FALSE
         ELSE hvac_on
    ELSE IF \/ (T > temperatures.cooling_setpoint + HalfBand(temperatures)
                /\ thermostat_mode = COOLING)
            \/ (T < temperatures.heating_setpoint - HalfBand(temperatures)
                /\ thermostat_mode = HEATING)
         THEN TRUE
         ELSE hvac_on

\* attribute writes that also retire the thermostat when the unit is idle
StoreStep_retiring(state, x, hvac_on) ==
    SetAttr(SetAttr(SetAttr(SetAttr(state, "hvac_on", hvac_on), "indoor_air_temp", x[1]),
                    "mass_temp", x[2]),
            "thermostat_mode", IF hvac_on THEN state.thermostat_mode ELSE OFF)

\* the attribute writes that end simulate_time_step
StoreStep(state, x, hvac_on) ==
    SetAttr(SetAttr(SetAttr(state, "hvac_on", hvac_on), "indoor_air_temp", x[1]),
            "mass_temp", x[2])

\* simulate_time_step(state, environ, temperatures, time_step_size):
\* [exc, state]; state is the passed-in object after the call
simulate_time_step(self, state, temperatures, time_step_s) ==
    IF ~HasAttr(state, "mass_temp") \/ ~HasAttr(state, "hvac_kw")
    THEN [exc |-> "AttributeError", state |-> state]
    ELSE LET state_vars == <<state.indoor_air_temp, state.mass_temp>>
             B == IF state.hvac_on = TRUE THEN self.B_ETP_ON ELSE self.B_ETP_OFF
             x == Propagate(self.A_ETP, self.AEI, B, state_vars, time_step_s)
         IN  [exc |-> "",
              state |-> StoreStep(state, x,
                           Hysteresis(state.hvac_on, x[1], state.thermostat_mode, temperatures))]

\* ------------------------------------------------------------------------
\* HVACDSOTRTBiddingStrategy
\* ------------------------------------------------------------------------
MinOf(seq) == CHOOSE v \in {seq[i] : i \in DOMAIN seq} : \A i \in DOMAIN seq : v <= seq[i]

MaxOf(seq) == CHOOSE v \in {seq[i] : i \in DOMAIN seq} : \A i \in DOMAIN seq : v >= seq[i]

\* __init__ of the strategy (after init_class_attributes set the configured
\* attributes); bid_rt, delta_Q, delta_T, price_forecast_0 and B_ETP_ON are
\* not attributes of a new strategy
HVACDSOTRTBiddingStrategy(cfg, period) ==
    [price_cap |-> cfg.price_cap, bid_delay |-> cfg.bid_delay, slider |-> cfg.slider,
     interpolation |-> cfg.interpolation,
     ProfitMargin_intercept |-> cfg.ProfitMargin_intercept,
     ProfitMargin_slope |-> cfg.ProfitMargin_slope,
     period |-> period, RT_minute_count_interpolation |-> 0,
     quantity_curve |-> [i \in 1..10 |-> 0], temp_curve |-> <<0>>,
     Qopt_DA |-> 0, Topt_DA |-> 0]

\* a step of a ramp that takes four periods
TimesFiveThirtieths_quarter(x) == RDiv(5 * x, 20)

\* x * (5.0 / 30.0)
TimesFiveThirtieths(x) == RDiv(5 * x, 30)

\* interpolate_DA_quantities_into_RT as it would be if the lookup moved on
\* to the next day-ahead slot once a real-time period has run
interpolate_DA_quantities_into_RT_nextSlot(self, da) ==
    LET slot == IF self.RT_minute_count_interpolation >= 5 THEN 2 ELSE 1
    IN  IF Len(da.bid_da) < slot
        THEN [exc |-> "IndexError", rt |-> self, da |-> da]
        ELSE [exc |-> "",
              rt |-> SetAttr(SetAttr(self, "Qopt_DA", da.bid_da[slot][2][1]),
                             "Topt_DA", da.temp_room[slot]),
              da |-> da]

\* interpolate_DA_quantities_into_RT: [exc, rt, da]
interpolate_DA_quantities_into_RT(self, da) ==
    IF self.interpolation
    THEN LET atZero == self.RT_minute_count_interpolation = 0
             atThirty == self.RT_minute_count_interpolation = 30
         IN  IF atZero /\ Len(da.bid_da) < 1
             THEN [exc |-> "IndexError", rt |-> self, da |-> da]
             ELSE IF atThirty /\ Len(da.bid_da) < 2
             THEN [exc |-> "IndexError", rt |-> self, da |-> da]
             ELSE IF ~atZero /\ ~atThirty /\ ~HasAttr(self, "delta_Q")
             THEN [exc |-> "AttributeError", rt |-> self, da |-> da]
             ELSE LET dQ == IF atZero THEN da.bid_da[1][2][1] - da.previous_Q_DA
                            ELSE IF atThirty
                                 THEN FMul(da.bid_da[2][2][1] - da.previous_Q_DA, SCALE \div 2)
                                 ELSE self.delta_Q
                      dT == IF atZero THEN da.temp_room[1] - da.previous_T_DA
                            ELSE IF atThirty
                                 THEN FMul(da.temp_room[2] - da.previous_T_DA, SCALE \div 2)
                                 ELSE self.delta_T
                      Q == da.previous_Q_DA + TimesFiveThirtieths(dQ)
                      T == da.previous_T_DA + TimesFiveThirtieths(dT)
                  IN  [exc |-> "",
                       rt |-> SetAttr(SetAttr(SetAttr(SetAttr(self, "delta_Q", dQ),
                                    "delta_T", dT), "Qopt_DA", Q), "Topt_DA", T),
                       da |-> [da EXCEPT !.previous_Q_DA = Q, !.previous_T_DA = T]]
    ELSE IF Len(da.bid_da) < 1
         THEN [exc |-> "IndexError", rt |-> self, da |-> da]
         ELSE [exc |-> "",
               rt |-> SetAttr(SetAttr(self, "Qopt_DA", da.bid_da[1][2][1]),
                              "Topt_DA", da.temp_room[1]),
               da |-> da]

\* number of sub-steps of the lookahead: range(1, len(np.linspace(0, T, num=10)))
SubSteps == 9

\* number of candidate temperatures of the lookahead
npt == 5

\* T = (bid_delay + period) / 3600.0, in hours
RtHorizon(self) == RDiv((self.bid_delay + self.period) * SCALE, 3600)

\* temp_curve as first built: Topt_DA + (i - 2) / 4.0 * slider, i = 0..4
InitialTempCurve(self) ==
    [k \in 1..npt |-> self.Topt_DA + FMul(FDiv(Fx(k - 3), Fx(4)), self.slider)]

\* a first candidate half a deadband above the indoor temperature, whatever
\* the unit does
FirstCandidate_above(asset_state, temperatures) ==
    asset_state.indoor_air_temp + HalfBand(temperatures)

\* temp_curve[0] as rewritten at the top of every candidate's iteration
FirstCandidate(asset_state, temperatures) ==
    IF \/ (asset_state.thermostat_mode = COOLING /\ asset_state.hvac_on)
       \/ (asset_state.thermostat_mode # COOLING /\ ~asset_state.hvac_on)
    THEN asset_state.indoor_air_temp + HalfBand(temperatures)
    ELSE asset_state.indoor_air_temp - HalfBand(temperatures)

\* the state a candidate's simulation starts from: x and hvac_on_tmp are set
\* from the asset state at the top of every candidate's iteration (prev is
\* where the previous candidate's simulation ended)
CandidateStart(asset_state, prev) ==
    [x |-> <<asset_state.indoor_air_temp, asset_state.mass_temperature>>,
     on |-> asset_state.hvac_on]

\* a lookahead that keeps its result in the asset state
AfterCandidate_stored(asset_state, result) ==
    [asset_state EXCEPT !.indoor_air_temp = result.x[1],
                        !.mass_temperature = result.x[2],
                        !.hvac_on = result.on]

\* the asset state after a candidate's simulation, which ran on the locals x
\* and hvac_on_tmp and ended in `result`
AfterCandidate(asset_state, result) == asset_state

\* the sub-steps n..SubSteps of one candidate: [exc, x, on, Q]
RECURSIVE LookaheadSteps(_, _, _, _, _, _, _, _, _, _)
LookaheadSteps(n, x, on, Q, setpoint, self, asset_model, asset_state, temperatures, AIET) ==
    IF n > SubSteps
    THEN [exc |-> "", x |-> x, on |-> on, Q |-> Q]
    ELSE LET mode == asset_state.thermostat_mode
             half == HalfBand(temperatures)
         IN  IF on
             THEN IF ~HasAttr(self, "B_ETP_ON")
                  THEN [exc |-> "AttributeError", x |-> x, on |-> on, Q |-> Q]
                  ELSE LET y == PropagateWith(AIET, asset_model.A_ETP, asset_model.AEI,
                                              self.B_ETP_ON, x)
                           Q2 == Q + FMul(FDiv(Fx(1), Fx(10)), asset_state.hvac_kW)
                           off == \/ (y[1] < setpoint - half /\ mode = COOLING)
                                  \/ (y[1] > setpoint + half /\ mode = HEATING)
                       IN  LookaheadSteps(n + 1, y, IF off THEN FALSE ELSE on, Q2, setpoint,
                                          self, asset_model, asset_state, temperatures, AIET)
             ELSE LET y == PropagateWith(AIET, asset_model.A_ETP, asset_model.AEI,
                                         asset_model.B_ETP_OFF, x)
                      turnOn == \/ (y[1] > setpoint + half /\ mode = COOLING)
                                \/ (y[1] < setpoint - half /\ mode = HEATING)
                  IN  LookaheadSteps(n + 1, y, IF turnOn THEN TRUE ELSE on, Q, setpoint,
                                     self, asset_model, asset_state, temperatures, AIET)

\* the candidates i..npt: [exc, rt, asset_state, starts, flips]; starts lists
\* the state each candidate was started from, flips counts the candidates
\* whose simulated unit ended in the other on/off state
RECURSIVE LookaheadCandidates(_, _, _, _, _, _, _, _, _)
LookaheadCandidates(i, self, prev, starts, flips, asset_model, asset_state, temperatures, AIET) ==
    IF i > npt
    THEN [exc |-> "", rt |-> self, asset_state |-> asset_state, starts |-> starts,
          flips |-> flips]
    ELSE LET s1 == [self EXCEPT !.temp_curve[1] = FirstCandidate(asset_state, temperatures)]
             start == CandidateStart(asset_state, prev)
             r == LookaheadSteps(1, start.x, start.on, 0, s1.temp_curve[i],
                                 s1, asset_model, asset_state, temperatures, AIET)
             f == IF r.on # start.on THEN flips + 1 ELSE flips
         IN  IF r.exc # ""
             THEN [exc |-> r.exc, rt |-> s1,
                   asset_state |-> AfterCandidate(asset_state, [x |-> r.x, on |-> r.on]),
                   starts |-> Append(starts, start), flips |-> f]
             ELSE LookaheadCandidates(i + 1, [s1 EXCEPT !.quantity_curve[i] = r.Q],
                                      [x |-> r.x, on |-> r.on], Append(starts, start), f,
                                      asset_model,
                                      AfterCandidate(asset_state, [x |-> r.x, on |-> r.on]),
                                      temperatures, AIET)

\* estimate_hvac_energy_in_rt_period: [exc, rt, asset_state, starts, flips]
estimate_hvac_energy_in_rt_period(self, asset_model, asset_state, temperatures) ==
    LET s0 == [self EXCEPT !.temp_curve = InitialTempCurve(self),
                           !.quantity_curve = [k \in 1..npt |-> 0]]
    IN  LookaheadCandidates(1, s0,
                            [x |-> <<asset_state.indoor_air_temp, asset_state.mass_temperature>>,
                             on |-> asset_state.hvac_on],
                            <<>>, 0, asset_model, asset_state, temperatures,
                            StepMatrix(asset_model.A_ETP, asset_model.AEI,
                                       RDiv(RtHorizon(self), 10)))

\* a clamp with the two caps and no floor
ClampPoint_capsOnly(pt, hvac_kW, price_cap) ==
    <<IF pt[1] > hvac_kW THEN hvac_kW ELSE pt[1],
      IF pt[2] > price_cap THEN price_cap ELSE pt[2]>>

\* the clamp loop that ends create_bid, on one point <<Q, P>>
ClampPoint(pt, hvac_kW, price_cap) ==
    LET q1 == IF pt[1] > hvac_kW THEN hvac_kW ELSE pt[1]
        q2 == IF q1 < 0 THEN 0 ELSE q1
        p1 == IF pt[2] > price_cap THEN price_cap ELSE pt[2]
        p2 == IF p1 < 0 THEN 0 ELSE p1
    IN  <<q2, p2>>

\* four points that put Qopt_DA in the middle wherever it lies
RawBid_optAlways(Q_min, Q_max, Qopt_DA, CurveSlope, yIntercept, margin, price) ==
    << <<Q_min, FMul(Q_min, CurveSlope) + yIntercept + margin>>,
       <<Qopt_DA, FMul(Qopt_DA, CurveSlope) + yIntercept + margin>>,
       <<Qopt_DA, FMul(Qopt_DA, CurveSlope) + yIntercept - margin>>,
       <<Q_max, FMul(Q_max, CurveSlope) + yIntercept - margin>> >>

\* four points whose flat segments lie at the forecast's extremes themselves
RawBid_flatAtForecast(Q_min, Q_max, Qopt_DA, CurveSlope, yIntercept, margin, price) ==
    IF Q_min # Q_max
    THEN RawBid_optAlways(Q_min, Q_max, Qopt_DA, CurveSlope, yIntercept, margin, price)
    ELSE << <<Q_min, MaxOf(price)>>, <<Q_min, MaxOf(price)>>,
            <<Q_max, MinOf(price)>>, <<Q_max, MinOf(price)>> >>

\* the four points of create_bid before clamping, given CurveSlope and
\* yIntercept where they are used
RawBid(Q_min, Q_max, Qopt_DA, CurveSlope, yIntercept, margin, price) ==
    IF Q_min # Q_max
    THEN IF Q_max > Qopt_DA /\ Qopt_DA > Q_min
         THEN << <<Q_min, FMul(Q_min, CurveSlope) + yIntercept + margin>>,
                 <<Qopt_DA, FMul(Qopt_DA, CurveSlope) + yIntercept + margin>>,
                 <<Qopt_DA, FMul(Qopt_DA, CurveSlope) + yIntercept - margin>>,
                 <<Q_max, FMul(Q_max, CurveSlope) + yIntercept - margin>> >>
         ELSE << <<Q_min, FMul(Q_min, CurveSlope) + yIntercept + margin>>,
                 <<Q_min, FMul(Q_min, CurveSlope) + yIntercept + margin>>,
                 <<Q_max, FMul(Q_max, CurveSlope) + yIntercept - margin>>,
                 <<Q_max, FMul(Q_max, CurveSlope) + yIntercept - margin>> >>
    ELSE << <<Q_min, MaxOf(price) + margin>>,
            <<Q_min, MaxOf(price) + margin>>,
            <<Q_max, MinOf(price) - margin>>,
            <<Q_max, MinOf(price) - margin>> >>

\* create_bid: [exc, rt]
create_bid(self, asset_state, forecasts) ==
    LET Q_min == MinOf(self.quantity_curve)
        Q_max == MaxOf(self.quantity_curve)
        delta_DA_price == MaxOf(forecasts.price) - MinOf(forecasts.price)
        s1 == SetAttr(self, "price_forecast_0_new", forecasts.price[1])
        margin == FMul(FDiv(self.ProfitMargin_intercept, Fx(100)), delta_DA_price)
    IN  IF Q_min # Q_max /\ asset_state.hvac_kW = 0
        THEN [exc |-> "ZeroDivisionError", rt |-> s1]
        ELSE IF Q_min # Q_max /\ ~HasAttr(self, "price_forecast_0")
        THEN [exc |-> "AttributeError", rt |-> s1]
        ELSE LET CurveSlope ==
                     IF Q_min # Q_max
                     THEN FMul(FDiv(delta_DA_price, 0 - asset_state.hvac_kW),
                               SCALE + FDiv(self.ProfitMargin_slope, Fx(100)))
                     ELSE 0
                 yIntercept ==
                     IF Q_min # Q_max
                     THEN self.price_forecast_0 - FMul(CurveSlope, self.Qopt_DA)
                     ELSE 0
                 raw == RawBid(Q_min, Q_max, self.Qopt_DA, CurveSlope, yIntercept,
                               margin, forecasts.price)
                 BID == [i \in 1..4 |-> ClampPoint(raw[i], asset_state.hvac_kW, self.price_cap)]
             IN  [exc |-> "",
                  rt |-> SetAttr(SetAttr(SetAttr(SetAttr(s1, "RT_Q_max", Q_max),
                             "RT_Q_min", Q_min), "bid_rt", BID),
                             "RT_minute_count_interpolation",
                             self.RT_minute_count_interpolation + 5)]

\* the market-exclusion test that opens form_rt_bid: the enum-valued fields
\* are compared with the string literals 'HEAT_PUMP' and 'Heating'
ExcludedFromRT(asset_model, asset_state) ==
    asset_model.heating_system_type # "HEAT_PUMP" /\ asset_state.thermostat_mode = "Heating"

ZeroBid == << <<0, 0>>, <<0, 0>>, <<0, 0>>, <<0, 0>> >>

\* form_rt_bid after self.create_bid() returned or raised c
AfterCreateBid(a, b, c) ==
    [exc |-> c.exc, rt |-> c.rt, da |-> a.da, asset_state |-> b.asset_state,
     ran |-> <<"interpolate", "estimate", "create_bid">>,
     starts |-> b.starts, flips |-> b.flips]

\* form_rt_bid after self.estimate_hvac_energy_in_rt_period() returned or raised b
AfterEstimate(a, b, forecasts) ==
    IF b.exc # ""
    THEN [exc |-> b.exc, rt |-> b.rt, da |-> a.da, asset_state |-> b.asset_state,
          ran |-> <<"interpolate", "estimate">>, starts |-> b.starts, flips |-> b.flips]
    ELSE AfterCreateBid(a, b, create_bid(b.rt, b.asset_state, forecasts))

\* form_rt_bid after self.interpolate_DA_quantities_into_RT() returned or raised a
AfterInterpolate(a, asset_model, asset_state, temperatures, forecasts) ==
    IF a.exc # ""
    THEN [exc |-> a.exc, rt |-> a.rt, da |-> a.da, asset_state |-> asset_state,
          ran |-> <<"interpolate">>, starts |-> <<>>, flips |-> 0]
    ELSE AfterEstimate(a, estimate_hvac_energy_in_rt_period(a.rt, asset_model, asset_state,
                                                             temperatures),
                       forecasts)

\* form_rt_bid: [exc, rt, da, asset_state, ran, starts, flips]; ran lists the
\* methods it called, in order
form_rt_bid(self, da, asset_model, asset_state, temperatures, forecasts) ==
    IF ExcludedFromRT(asset_model, asset_state)
    THEN [exc |-> "",
          rt |-> SetAttr(SetAttr(self, "cooling_setpoint", temperatures.temp_min_cool),
                         "bid_rt", ZeroBid),
          da |-> da, asset_state |-> asset_state, ran |-> <<>>, starts |-> <<>>, flips |-> 0]
    ELSE AfterInterpolate(interpolate_DA_quantities_into_RT(self, da),
                          asset_model, asset_state, temperatures, forecasts)

\* ------------------------------------------------------------------------
\* HVACDSOTEnvironmentModel
\* ------------------------------------------------------------------------
KW_TO_BTU_PER_HR == 3412142

\* math.exp at the arguments 4 - 10 * humidity takes for the configured humidities
MathExp(z) == IF z = 0 THEN SCALE ELSE IF z = Fx(4) THEN 54598 ELSE SCALE + z

calc_Qs(self, solar_heatgain_factor, solar_gain) ==
    [self EXCEPT !.Qs = FMul(solar_gain, solar_heatgain_factor)]

calc_Qh(self, thermostat_mode, hvac_on, heating_capacity, cooling_capacity, hvac_kW) ==
    LET Qh == IF thermostat_mode = HEATING
              THEN heating_capacity + FMul(SCALE \div 50, heating_capacity)
              ELSE IF thermostat_mode = COOLING
              THEN FDiv(0 - cooling_capacity,
                        SCALE + SCALE \div 100 + self.latent_load_fraction
                          + MathExp(Fx(4) - 10 * self.humidity))
                   + FMul(cooling_capacity, SCALE \div 50)
              ELSE 0
        Qh_org == IF thermostat_mode = HEATING THEN hvac_kW
                  ELSE IF thermostat_mode = COOLING THEN 0 - hvac_kW
                  ELSE 0
    IN  [self EXCEPT !.Qh = Qh, !.Qh_org = IF ~hvac_on THEN 0 ELSE Qh_org]

\* An optional argument is <<>> when it is left out (None) and <<v>> when
\* the value v is passed.
\* an argument that counts as missing when it is None or zero
IsNone_falsy(arg) == arg = <<>> \/ arg = <<0>>

\* arg == None
IsNone(arg) == arg = <<>>

\* The methods below return [exc, env, calls]: env is the object after the
\* call, calls the methods of the object the call ran, in order.
\* calc_Qi; the floor at zero is assigned to a local, self.Qi keeps its value
calc_Qi(self, house_kW, wh_kW, thermostat_mode, hvac_on, Ch, Cc, hvac_kW, Qh_org) ==
    LET s1 == IF IsNone(Qh_org)
              THEN calc_Qh(self, thermostat_mode, hvac_on, Ch, Cc, hvac_kW)
              ELSE [self EXCEPT !.Qh_org = Qh_org[1]]
    IN  [exc |-> "",
         env |-> [s1 EXCEPT !.Qi = FMul(house_kW - Abs(s1.Qh_org) - wh_kW, KW_TO_BTU_PER_HR)],
         calls |-> IF IsNone(Qh_org) THEN <<"calc_Qh">> ELSE <<>>]

\* the first lines of calc_Qm and calc_Qa, which settle Qi and then Qs:
\* self.calc_Qs() is a call without the two arguments calc_Qs requires
SettleQiQs(self, house_kW, wh_kW, thermostat_mode, hvac_on, Ch, Cc, hvac_kW, Qs, Qi) ==
    LET r1 == IF IsNone(Qi)
              THEN calc_Qi(self, house_kW, wh_kW, thermostat_mode, hvac_on, Ch, Cc, hvac_kW,
                           <<>>)
              ELSE [exc |-> "", env |-> [self EXCEPT !.Qi = Qi[1]], calls |-> <<>>]
        c1 == IF IsNone(Qi) THEN <<"calc_Qi">> \o r1.calls ELSE <<>>
    IN  IF IsNone(Qs)
        THEN [exc |-> "TypeError", env |-> r1.env, calls |-> c1 \o <<"calc_Qs">>]
        ELSE [exc |-> "", env |-> [r1.env EXCEPT !.Qs = Qs[1]], calls |-> c1]

\* calc_Qm
calc_Qm(self, house_kW, wh_kW, thermostat_mode, hvac_on, Ch, Cc, hvac_kW, Qs, Qi) ==
    LET r == SettleQiQs(self, house_kW, wh_kW, thermostat_mode, hvac_on, Ch, Cc, hvac_kW,
                        Qs, Qi)
    IN  IF r.exc # "" THEN r
        ELSE [r EXCEPT !.env.Qm = FMul(r.env.mass_internal_gain_fraction, r.env.Qi)
                                  + FMul(r.env.mass_solar_gain_fraction, r.env.Qs)]

\* calc_Qa
calc_Qa(self, house_kW, wh_kW, thermostat_mode, hvac_on, Ch, Cc, hvac_kW, Qs, Qi, Qh, Qh_org) ==
    LET r == SettleQiQs(self, house_kW, wh_kW, thermostat_mode, hvac_on, Ch, Cc, hvac_kW,
                        Qs, Qi)
        again == IsNone(Qh) \/ IsNone(Qh_org)
        s2 == IF again
              THEN calc_Qh(r.env, thermostat_mode, hvac_on, Ch, Cc, hvac_kW)
              ELSE [r.env EXCEPT !.Qh = Qh[1], !.Qh_org = Qh_org[1]]
        air == FMul(SCALE - s2.mass_internal_gain_fraction, s2.Qi)
               + FMul(SCALE - s2.mass_solar_gain_fraction, s2.Qs)
    IN  IF r.exc # "" THEN r
        ELSE [exc |-> "",
              env |-> [s2 EXCEPT !.Qa_OFF = air, !.Qa_ON = s2.Qh + air],
              calls |-> IF again THEN r.calls \o <<"calc_Qh">> ELSE r.calls]

\* calc_all_heat_flows after calc_Qm returned or raised r4, the methods run
\* before it being `before`
AfterQm(r4, before, house_kW, wh_kW, thermostat_mode, hvac_on, Ch, Cc, hvac_kW) ==
    IF r4.exc # ""
    THEN [r4 EXCEPT !.calls = before \o <<"calc_Qm">> \o r4.calls]
    ELSE LET r5 == calc_Qa(r4.env, house_kW, wh_kW, thermostat_mode, hvac_on, Ch, Cc, hvac_kW,
                           <<r4.env.Qs>>, <<r4.env.Qi>>, <<r4.env.Qh>>, <<r4.env.Qh_org>>)
         IN  [r5 EXCEPT !.calls = before \o <<"calc_Qm">> \o r4.calls \o <<"calc_Qa">>
                                  \o r5.calls]

\* calc_all_heat_flows after calc_Qi returned r3
AfterQi(r3, house_kW, wh_kW, thermostat_mode, hvac_on, Ch, Cc, hvac_kW) ==
    AfterQm(calc_Qm(r3.env, house_kW, wh_kW, thermostat_mode, hvac_on, Ch, Cc, hvac_kW,
                    <<r3.env.Qs>>, <<r3.env.Qi>>),
            <<"calc_Qs", "calc_Qh", "calc_Qi">> \o r3.calls,
            house_kW, wh_kW, thermostat_mode, hvac_on, Ch, Cc, hvac_kW)

\* calc_all_heat_flows after calc_Qs and calc_Qh left the object as e2
AfterQh(e2, house_kW, wh_kW, thermostat_mode, hvac_on, Ch, Cc, hvac_kW) ==
    AfterQi(calc_Qi(e2, house_kW, wh_kW, thermostat_mode, hvac_on, Ch, Cc, hvac_kW,
                    <<e2.Qh_org>>),
            house_kW, wh_kW, thermostat_mode, hvac_on, Ch, Cc, hvac_kW)

calc_all_heat_flows(self, house_kW, wh_kW, thermostat_mode, hvac_on, Ch, Cc, hvac_kW) ==
    AfterQh(calc_Qh(calc_Qs(self, self.solar_heatgain_factor, self.solar_gain),
                    thermostat_mode, hvac_on, Ch, Cc, hvac_kW),
            house_kW, wh_kW, thermostat_mode, hvac_on, Ch, Cc, hvac_kW)

\* ------------------------------------------------------------------------
\* init_class_attributes.  In the construction runs an attribute value is
\* kept as the text of its Python literal ("None" is None); the dictionary
\* `attr` is the sequence of its items <<key, value>> in insertion order,
\* class_attrs the names the object's class defines (its methods).
\* ------------------------------------------------------------------------
None == "None"

\* a test that accepts every key
hasattr_any(obj, class_attrs, key) == TRUE

\* hasattr(obj, key)
hasattr(obj, class_attrs, key) == key \in DOMAIN obj \cup class_attrs

\* the loop `for key, value in attr.items()` from item i on: [exc, obj]
RECURSIVE SetItems(_, _, _, _)
SetItems(i, obj, attr, class_attrs) ==
    IF i > Len(attr)
    THEN [exc |-> "", obj |-> obj]
    ELSE IF hasattr(obj, class_attrs, attr[i][1])
         THEN SetItems(i + 1, SetAttr(obj, attr[i][1], attr[i][2]), attr, class_attrs)
         ELSE [exc |-> "KeyError", obj |-> obj]

\* init_class_attributes(obj, attr): [exc, obj, warnings]; warnings is the
\* set of attributes the second loop logs a warning for
init_class_attributes(obj, attr, class_attrs) ==
    LET r == SetItems(1, obj, attr, class_attrs)
        unset == {k \in DOMAIN r.obj : r.obj[k] = None}
    IN  IF r.exc # ""
        THEN [exc |-> r.exc, obj |-> r.obj, warnings |-> {}]
        ELSE IF unset # {} /\ ~HasAttr(r.obj, "name")
        THEN [exc |-> "AttributeError", obj |-> r.obj, warnings |-> {}]
        ELSE [exc |-> "", obj |-> r.obj, warnings |-> unset]

\* the attribute dictionary of each component at the point where its
\* __init__ calls init_class_attributes
HVACDSOTAgent_declared ==
    [name |-> None, house_name |-> None, meter_name |-> None, period |-> None,
     sim_time |-> None]

HVACTemperatures_declared ==
    [name |-> None, T_lower_limit |-> None, T_upper_limit |-> None,
     cooling_setpoint_lower |-> None, cooling_setpoint_upper |-> None,
     heating_setpoint_lower |-> None, heating_setpoint_upper |-> None,
     basepoint_cooling |-> None, basepoint_heating |-> None,
     cooling_setpoint |-> None, heating_setpoint |-> None,
     wakeup_set_cool |-> None, daylight_set_cool |-> None, evening_set_cool |-> None,
     night_set_cool |-> None, weekend_day_set_cool |-> None,
     weekend_night_set_cool |-> None,
     wakeup_set_heat |-> None, daylight_set_heat |-> None, evening_set_heat |-> None,
     night_set_heat |-> None, weekend_day_set_heat |-> None,
     weekend_night_set_heat |-> None,
     deadband |-> None, temp_max_cool |-> "0", temp_min_cool |-> "0",
     temp_max_heat |-> "0", temp_min_heat |-> "0"]

HVACSchedule_declared ==
    [name |-> None, wakeup_start |-> None, daylight_start |-> None,
     evening_start |-> None, night_start |-> None, weekend_day_start |-> None,
     weekend_night_start |-> None, ramp_high_limit |-> None, ramp_low_limit |-> None,
     ramp_low_cool |-> "0", ramp_high_cool |-> "0", ramp_low_heat |-> "0",
     ramp_high_heat |-> "0", range_high_limit |-> "0", range_low_limit |-> "0",
     range_low_cool |-> "0", range_high_cool |-> "0", range_low_heat |-> "0",
     range_high_heat |-> "0", temperatures |-> "<HVACTemperatures>"]

HVACDSOTRTBiddingStrategy_declared ==
    [name |-> None, price_cap |-> None, bid_delay |-> None, slider |-> None,
     cooling_participating |-> None, heating_participating |-> None,
     windowLength |-> None, interpolation |-> None, ProfitMargin_intercept |-> None,
     ProfitMargin_slope |-> None, hvac_schedule |-> "<HVACSchedule>",
     flexibility |-> "<HVACDSOTPriceFlexibilityCurve>", bid |-> "<DSOT4pointBid>",
     period |-> "1770", RT_minute_count_interpolation |-> None]

\* the components HVACDSOTAgent.__init__ constructs, in its order
Components ==
    <<"HVACDSOTAgent", "HVACTemperatures", "HVACSchedule", "HVACDSOTRTBiddingStrategy">>

Declared(cls) ==
    CASE cls = "HVACDSOTAgent" -> HVACDSOTAgent_declared
      [] cls = "HVACTemperatures" -> HVACTemperatures_declared
      [] cls = "HVACSchedule" -> HVACSchedule_declared
      [] cls = "HVACDSOTRTBiddingStrategy" -> HVACDSOTRTBiddingStrategy_declared

\* the methods of each class
ClassAttrs(cls) ==
    CASE cls = "HVACDSOTAgent" -> {"calc_capacites_and_all_heat_flows"}
      [] cls = "HVACTemperatures" -> {"validate_inputs"}
      [] cls = "HVACSchedule" ->
            {"validate_inputs", "get_scheduled_setpoint", "change_basepoint",
             "calc_thermostat_settings"}
      [] cls = "HVACDSOTRTBiddingStrategy" ->
            {"interpolate_DA_quantities_into_RT", "estimate_hvac_energy_in_rt_period",
             "create_bid", "form_rt_bid"}

\* ------------------------------------------------------------------------
\* HVACTemperatures and HVACSchedule (numbers are fixed-point; hours too)
\* ------------------------------------------------------------------------
\* HVACTemperatures.__init__ with a dictionary that defines the attributes
\* it declares as None; the four limits start at 0
HVACTemperatures(attributes) ==
    DictUpdate([temp_max_cool |-> 0, temp_min_cool |-> 0, temp_max_heat |-> 0,
                temp_min_heat |-> 0], attributes)

\* HVACSchedule.__init__ with a dictionary that defines the attributes it
\* declares as None; the ramps and ranges start at 0.  self.temperatures is
\* the agent's HVACTemperatures object (the variable temperatures)
HVACSchedule(attributes) ==
    DictUpdate([ramp_low_cool |-> 0, ramp_high_cool |-> 0, ramp_low_heat |-> 0,
                ramp_high_heat |-> 0, range_high_limit |-> 0, range_low_limit |-> 0,
                range_low_cool |-> 0, range_high_cool |-> 0, range_low_heat |-> 0,
                range_high_heat |-> 0], attributes)

\* 0.5
Half == SCALE \div 2

\* HVACSchedule.get_scheduled_setpoint: <<val_cool, val_heat>>; day_of_week
\* is an integer, 0 for Monday
get_scheduled_setpoint(self, temperatures, hour_of_day, day_of_week) ==
    LET next_day == hour_of_day > Fx(23) /\ hour_of_day < Fx(48)
        hour == IF next_day THEN hour_of_day - Fx(24)
                ELSE IF hour_of_day > Fx(47) THEN hour_of_day - Fx(48)
                ELSE hour_of_day
        day1 == IF next_day THEN day_of_week + 1
                ELSE IF hour_of_day > Fx(47) THEN day_of_week + 2
                ELSE day_of_week
        day == IF day1 > 6 THEN day1 - 7 ELSE day1
    IN  IF day > 4
        THEN IF self.weekend_day_start <= Fx(day) /\ Fx(day) < self.weekend_night_start
             THEN <<temperatures.weekend_day_set_cool, temperatures.weekend_day_set_heat>>
             ELSE <<temperatures.weekend_night_set_cool, temperatures.weekend_night_set_heat>>
        ELSE IF self.wakeup_start <= Fx(day) /\ Fx(day) < self.daylight_start
             THEN <<temperatures.wakeup_set_cool, temperatures.wakeup_set_heat>>
             ELSE IF self.daylight_start <= Fx(day) /\ Fx(day) < self.evening_start
             THEN <<temperatures.daylight_set_cool, temperatures.daylight_set_heat>>
             ELSE IF self.evening_start <= Fx(day) /\ Fx(day) < self.night_start
             THEN <<temperatures.evening_set_cool, temperatures.evening_set_heat>>
             ELSE <<temperatures.night_set_cool, temperatures.night_set_heat>>

\* calc_thermostat_settings, the four ranges
ScaleRanges(self, slider) ==
    [self EXCEPT !.range_high_cool = FMul(self.range_high_limit, slider),
                 !.range_low_cool = FMul(self.range_low_limit, slider),
                 !.range_high_heat = FMul(self.range_high_limit, slider),
                 !.range_low_heat = FMul(self.range_low_limit, slider)]

\* ramps that grow with the slider, each from the limit of its own name
ScaleRamps_bySlider(self, slider) ==
    [self EXCEPT !.ramp_high_cool = FMul(self.ramp_high_limit, slider),
                 !.ramp_low_cool = FMul(self.ramp_low_limit, slider),
                 !.ramp_high_heat = FMul(self.ramp_high_limit, slider),
                 !.ramp_low_heat = FMul(self.ramp_low_limit, slider)]

\* calc_thermostat_settings, the four ramps
ScaleRamps(self, slider) ==
    IF slider # 0
    THEN [self EXCEPT !.ramp_high_cool = FMul(self.ramp_high_limit, SCALE - slider),
                      !.ramp_low_cool = FMul(self.ramp_low_limit, SCALE - slider),
                      !.ramp_high_heat = FMul(self.ramp_low_limit, SCALE - slider),
                      !.ramp_low_heat = FMul(self.ramp_high_limit, SCALE - slider)]
    ELSE [self EXCEPT !.ramp_high_cool = 0, !.ramp_low_cool = 0,
                      !.ramp_high_heat = 0, !.ramp_low_heat = 0]

\* calc_thermostat_settings, the check for overlapping bid curves: it reads
\* and writes basepoint_cooling and basepoint_heating of the schedule itself
SeparateBasepoints(self, temperatures) ==
    IF self.basepoint_cooling - HalfBand(temperatures) - Half
         < self.basepoint_heating + HalfBand(temperatures) + Half
    THEN LET mid_point == FDiv(self.basepoint_cooling + self.basepoint_heating, Fx(2))
         IN  [self EXCEPT !.basepoint_cooling = mid_point + HalfBand(temperatures) + Half,
                          !.basepoint_heating = mid_point - HalfBand(temperatures) - Half]
    ELSE self

\* limits left as they were computed
SeparateLimits_kept(min_cool, max_heat, cooling_setpt, heating_setpt, temperatures) ==
    <<min_cool, max_heat>>

\* the limits min_cool and max_heat as the overlap check leaves them, for
\* the setpoints they were computed from: <<min_cool, max_heat>>
SeparateLimits(min_cool, max_heat, cooling_setpt, heating_setpt, temperatures) ==
    IF max_heat + HalfBand(temperatures) + Half > min_cool - HalfBand(temperatures) - Half
    THEN LET mid_point == FDiv(min_cool + max_heat, Fx(2))
             c == mid_point + HalfBand(temperatures) + Half
             h == mid_point - HalfBand(temperatures) - Half
         IN  <<IF c > cooling_setpt THEN cooling_setpt ELSE c,
               IF h < heating_setpt THEN heating_setpt ELSE h>>
    ELSE <<min_cool, max_heat>>

\* calc_thermostat_settings, the temperature limits written to self.temperatures
SetTempLimits(self, temperatures) ==
    LET cooling_setpt == self.basepoint_cooling
        heating_setpt == self.basepoint_heating
        lim == SeparateLimits(cooling_setpt - self.range_low_cool,
                              heating_setpt + self.range_high_heat,
                              cooling_setpt, heating_setpt, temperatures)
    IN  [temperatures EXCEPT !.temp_max_cool = cooling_setpt + self.range_high_cool,
                             !.temp_min_cool = lim[1],
                             !.temp_max_heat = lim[2],
                             !.temp_min_heat = heating_setpt - self.range_low_heat]

\* HVACSchedule.calc_thermostat_settings: [exc, schedule, temperatures]
calc_thermostat_settings(self, temperatures, slider) ==
    IF ~HasAttr(self, "basepoint_cooling") \/ ~HasAttr(self, "basepoint_heating")
    THEN [exc |-> "AttributeError", schedule |-> ScaleRamps(ScaleRanges(self, slider), slider),
          temperatures |-> temperatures]
    ELSE [exc |-> "",
          schedule |-> SeparateBasepoints(ScaleRamps(ScaleRanges(self, slider), slider),
                                          temperatures),
          temperatures |->
              SetTempLimits(SeparateBasepoints(ScaleRamps(ScaleRanges(self, slider), slider),
                                               temperatures),
                            temperatures)]

\* ------------------------------------------------------------------------
\* HVACDSOTDABiddingStrategy.  An attribute that holds another object of
\* the agent holds the name of the variable that is that object.
\* ------------------------------------------------------------------------
\* __init__ (without RT_test_support): the base class keeps the schedule as
\* hvac_schedule and the asset state is kept as asset_state; schedule, state
\* and solver are not attributes of a new strategy
HVACDSOTDABiddingStrategy(attributes) ==
    DictUpdate(
        [hvac_schedule |-> "schedule", flexibility |-> "flexibility",
         forecasts |-> "forecasts", temperatures |-> "temperatures",
         asset_state |-> "states[1]",
         temp_max_cool_da |-> 0, temp_min_cool_da |-> 0, temp_max_heat_da |-> 0,
         temp_min_heat_da |-> 0, forecast_temperature_min |-> 0,
         forecast_temperature_max |-> 0, forecast_temperature_delta |-> 0,
         price_delta |-> 0, previous_Q_DA |-> 0, previous_T_DA |-> 0,
         bid_da |-> <<>>, temp_room |-> <<>>, temp_desired_48hour_cool |-> <<>>,
         temp_desired_48hour_heat |-> <<>>, latent_factor |-> <<>>,
         temp_room_previous_cool |-> 0, temp_room_previous_heat |-> 0],
        attributes)

update_forecast_temperature_limits(self, forecasts) ==
    [self EXCEPT !.forecast_temperature_min = MinOf(forecasts.outside_air_temperature),
                 !.forecast_temperature_max = MaxOf(forecasts.outside_air_temperature)]

\* update_da_indoor_temperature_limits: [exc, da]; it reads self.schedule
update_da_indoor_temperature_limits(self, schedule, temperatures, cooling_setpt, heating_setpt) ==
    IF ~HasAttr(self, "schedule")
    THEN [exc |-> "AttributeError", da |-> self]
    ELSE [exc |-> "",
          da |-> [self EXCEPT
                    !.temp_max_cool_da = cooling_setpt + schedule.range_high_cool,
                    !.temp_min_cool_da =
                        SeparateLimits(cooling_setpt - schedule.range_low_cool,
                                       heating_setpt + schedule.range_high_heat,
                                       cooling_setpt, heating_setpt, temperatures)[1],
                    !.temp_max_heat_da =
                        SeparateLimits(cooling_setpt - schedule.range_low_cool,
                                       heating_setpt + schedule.range_high_heat,
                                       cooling_setpt, heating_setpt, temperatures)[2],
                    !.temp_min_heat_da = heating_setpt - schedule.range_low_heat]]

\* v held between lo and hi the way update_da_temperature_limits does it:
\* first capped at hi, then raised to lo
Between(v, lo, hi) ==
    LET capped == IF v > hi THEN hi ELSE v
    IN  IF capped < lo THEN lo ELSE capped

\* list[idx] = v on a Python list (idx counts from 0)
SetItem(list, idx, v) == [list EXCEPT ![idx + 1] = v]

\* the slot time_idx of update_da_temperature_limits after its call of
\* update_da_indoor_temperature_limits returned or raised u; sp is the
\* scheduled pair
SlotStored(u, sp, time_idx) ==
    IF u.exc # ""
    THEN u
    ELSE IF Len(u.da.temp_desired_48hour_cool) <= time_idx
    THEN [exc |-> "IndexError", da |-> u.da]
    ELSE IF Len(u.da.temp_desired_48hour_heat) <= time_idx
    THEN [exc |-> "IndexError",
          da |-> [u.da EXCEPT !.temp_desired_48hour_cool =
                     SetItem(@, time_idx,
                             Between(sp[1], u.da.temp_min_cool_da, u.da.temp_max_cool_da))]]
    ELSE [exc |-> "",
          da |-> [u.da EXCEPT
                     !.temp_desired_48hour_cool =
                         SetItem(@, time_idx,
                                 Between(sp[1], u.da.temp_min_cool_da, u.da.temp_max_cool_da)),
                     !.temp_desired_48hour_heat =
                         SetItem(@, time_idx,
                                 Between(sp[2], u.da.temp_min_heat_da, u.da.temp_max_heat_da))]]

\* one slot: the scheduled pair sp, the limits, the stored desired temperatures
DaSlot(self, schedule, temperatures, sp, time_idx) ==
    SlotStored(update_da_indoor_temperature_limits(self, schedule, temperatures, sp[1], sp[2]),
               sp, time_idx)

\* the loop of update_da_temperature_limits from slot time_idx on: [exc, da];
\* hour is sim_time.hour + sim_time.minute / 60
RECURSIVE DaSlots(_, _, _, _, _, _)
DaSlots(time_idx, r, schedule, temperatures, hour, weekday) ==
    IF r.exc # "" \/ time_idx >= r.da.windowLength
    THEN r
    ELSE IF ~HasAttr(r.da, "schedule")
    THEN [exc |-> "AttributeError", da |-> r.da]
    ELSE DaSlots(time_idx + 1,
                 DaSlot(r.da, schedule, temperatures,
                        get_scheduled_setpoint(schedule, temperatures,
                                               hour + Fx(time_idx) + RDiv(SCALE, 60), weekday),
                        time_idx),
                 schedule, temperatures, hour, weekday)

\* update_da_temperature_limits(sim_time): [exc, da]
update_da_temperature_limits(self, schedule, temperatures, forecasts, hour, weekday) ==
    DaSlots(0, [exc |-> "", da |-> update_forecast_temperature_limits(self, forecasts)],
            schedule, temperatures, hour, weekday)

\* get_uncntrl_hvac_load after update_da_temperature_limits returned or
\* raised u: [exc, da, ret]; estimate_required_cooling_quantity reads the
\* name t, which it never binds
UncntrlLoad(u) ==
    IF u.exc # ""
    THEN [exc |-> u.exc, da |-> u.da, ret |-> <<>>]
    ELSE IF u.da.windowLength > 0
    THEN [exc |-> "NameError", da |-> u.da, ret |-> <<>>]
    ELSE [exc |-> "", da |-> u.da, ret |-> <<>>]

\* get_uncntrl_hvac_load(sim_time): [exc, da, ret]
get_uncntrl_hvac_load(self, schedule, temperatures, forecasts, hour, weekday) ==
    UncntrlLoad(update_da_temperature_limits(self, schedule, temperatures, forecasts,
                                             hour, weekday))

\* what get_run_solver does with the model: the solve succeeds, fails or
\* times out, and a solve that did not succeed is reported by an exception
\* or by the returned results
SolverOutcomes ==
    {[status |-> "ok", raises |-> FALSE]}
        \cup [status : {"failed", "timeout"}, raises : BOOLEAN]

\* solve_for_da_optimal_quantities: [exc, ret, called, solver]; called lists
\* the functions it called, solver is the outcome of the solve it ran (or
\* "not run").  The bounds rule and the constraint rule are evaluated for
\* every slot when the Pyomo components are built.
solve_for_da_optimal_quantities(self, asset_state, outcome) ==
    IF ~HasAttr(self, "state") \/ ~HasAttr(asset_state, "hvac_kw")
    THEN [exc |-> "AttributeError", ret |-> <<>>, called |-> <<>>, solver |-> "not run"]
    ELSE IF self.windowLength > 0 /\ Len(self.temp_desired_48hour_cool) < self.windowLength
    THEN [exc |-> "IndexError", ret |-> <<>>, called |-> <<>>, solver |-> "not run"]
    ELSE IF self.windowLength > 0 /\ ~HasAttr(self, "schedule")
    THEN [exc |-> "AttributeError", ret |-> <<>>, called |-> <<>>, solver |-> "not run"]
    ELSE IF self.windowLength > 0 /\ Len(self.latent_factor) < self.windowLength
    THEN [exc |-> "IndexError", ret |-> <<>>, called |-> <<>>, solver |-> "not run"]
    ELSE IF ~HasAttr(self, "solver")
    THEN [exc |-> "AttributeError", ret |-> <<>>, called |-> <<>>, solver |-> "not run"]
    ELSE IF outcome.raises
    THEN [exc |-> "SolverError", ret |-> <<>>, called |-> <<"get_run_solver">>,
          solver |-> outcome.status]
    ELSE IF self.windowLength > 0
    THEN [exc |-> "AttributeError", ret |-> <<>>, called |-> <<"get_run_solver">>,
          solver |-> outcome.status]
    ELSE [exc |-> "", ret |-> << <<>>, <<>> >>, called |-> <<"get_run_solver">>,
          solver |-> outcome.status]

\* ------------------------------------------------------------------------
\* The agent as a state machine
\* ------------------------------------------------------------------------
VARIABLES
    states,             \* the HVACDSOTAssetState objects, by identity; 1 is agent.asset.asset_state
    asset_model,        \* agent.asset.asset_model
    environment_model,  \* agent.asset.asset_model.environment_model
    temperatures,       \* agent.temperatures
    forecasts,          \* agent.forecasts
    rt,                 \* agent.rt_bidding_strategy
    da,                 \* agent.da_bidding_strategy
    schedule,           \* agent.schedule
    built,              \* the components constructed so far, by class name
    structure_model,    \* an HVACDSOTStructureModel, the structure the ETP parameters come from
    system_model,       \* an HVACDSOTSystemModel, the system the design capacities are for
    cache_output,       \* schedule_server.cache_output, the DataProxy's cache
    nsim,               \* simulate_time_step calls made so far
    trail,              \* per object, what was done to it since the copy was made
    op                  \* the last operation: its name, outcome and what it was given

vars ==
    <<states, asset_model, environment_model, temperatures, forecasts, rt, da, schedule, built,
      structure_model, system_model, cache_output, nsim, trail, op>>

\* exploration bounds
MaxSimSteps == 2

MaxRTPeriods == 3

\* configurations and measurements the runs are drawn from
EtpUnit == [UA |-> Fx(2), CA |-> Fx(2), HM |-> Fx(2), CM |-> Fx(2)]

EtpUnset == [UA |-> 0, CA |-> 0, HM |-> 0, CM |-> 0]

OutsideTemps == {Fx(95), Fx(60)}

IndoorTemps == {Fx(74), Fx(77)}

TimeSteps == {SCALE \div 20, SCALE \div 10}

TemperaturesCfg ==
    [cooling_setpoint |-> Fx(75), heating_setpoint |-> Fx(72), deadband |-> Fx(2),
     temp_min_cool |-> 0]

ScheduleCfg ==
    [wakeup_start |-> Fx(6), daylight_start |-> Fx(8), evening_start |-> Fx(17),
     night_start |-> Fx(22), weekend_day_start |-> Fx(8), weekend_night_start |-> Fx(22),
     ramp_high_limit |-> Fx(4), ramp_low_limit |-> Fx(2),
     range_high_limit |-> Fx(5), range_low_limit |-> Fx(3)]

RtCfg ==
    [price_cap |-> Fx(100), bid_delay |-> 30, slider |-> SCALE, interpolation |-> FALSE,
     ProfitMargin_intercept |-> Fx(10), ProfitMargin_slope |-> 0, period |-> 1770]

FlatSlot(q) == << <<q, 0>>, <<q, 0>>, <<q, 0>>, <<q, 0>> >>

\* the day-ahead strategy as constructed with RT_test_support
DaSupported ==
    [bid_da |-> <<FlatSlot(Fx(1)), FlatSlot(Fx(2))>>,
     temp_room |-> <<Fx(74), Fx(74)>>, previous_Q_DA |-> Fx(1), previous_T_DA |-> Fx(73)]

\* the day-ahead strategy as constructed without it
DaEmpty == [bid_da |-> <<>>, temp_room |-> <<>>, previous_Q_DA |-> 0, previous_T_DA |-> 0]

\* DSOTForecasts.__init__ and calc_forecast_stats
DSOTForecasts(price) == [price |-> price, price_forecast_0 |-> price[1]]

\* HVACDSOTEnvironmentModel.__init__; solar_heatgain_factor is the attribute
\* of its structure model that calc_all_heat_flows reads
EnvironmentModel(outside) ==
    [outside_air_temperature |-> outside, Qi |-> 0, Qh |-> 0, Qh_org |-> 0,
     Qa_ON |-> 0, Qa_OFF |-> 0, Qm |-> 0, Qs |-> 0,
     humidity |-> 0, latent_load_fraction |-> 0, solar_gain |-> Fx(10),
     mass_internal_gain_fraction |-> SCALE \div 2, mass_solar_gain_fraction |-> SCALE \div 2,
     solar_heatgain_factor |-> SCALE \div 2]

\* the record of an operation: obj is the state object it was given, arg its
\* time step, pre_on / pre_T that object's hvac_on and indoor_air_temp before
\* the call, after_flip whether the call before it was a simulate_time_step
\* on the same object that flipped hvac_on
Done(name, exc, obj, arg) ==
    [name |-> name, exc |-> exc, obj |-> obj, arg |-> arg,
     pre_on |-> FALSE, pre_T |-> 0, flipped |-> FALSE, after_flip |-> FALSE,
     ran |-> <<>>, starts |-> <<>>, flips |-> 0]

\* HVACDSOTAgent.__init__ with a configuration drawn from the given sets
InitWith(Etps, Outsides, HeatingTypes, RtCfgs, Das, Prices) ==
    \E etp \in Etps, outside \in Outsides, hst \in HeatingTypes, cfg \in RtCfgs,
       d \in Das, price \in Prices :
        /\ states = [i \in {1} |-> HVACDSOTAssetState_defaults]
        /\ environment_model = EnvironmentModel(outside)
        /\ asset_model = HVACDSOTAssetModel(hst, etp, EnvironmentModel(outside))
        /\ temperatures = TemperaturesCfg
        /\ forecasts = DSOTForecasts(price)
        /\ rt = HVACDSOTRTBiddingStrategy(cfg, cfg.period)
        /\ da = d
        /\ schedule = HVACSchedule(ScheduleCfg)
        /\ built = <<>>
        /\ structure_model = <<>>
        /\ system_model = <<>>
        /\ cache_output = <<>>
        /\ nsim = 0
        /\ trail = [i \in {1} |-> <<>>]
        /\ op = Done("init", "", 1, 0)

\* an operation from outside the asset model made the object's history its own
Diverged(kind) == <<kind>>

\* the messaging layer delivers measurements into the canonical asset state
Telemetry ==
    \E t \in IndoorTemps, on \in BOOLEAN :
        /\ states' = [states EXCEPT ![1] =
                        SetAttr(SetAttr(SetAttr(SetAttr(@, "indoor_air_temp", t),
                            "mass_temperature", t), "hvac_kW", Fx(3)), "hvac_on", on)]
        /\ trail' = [trail EXCEPT ![1] = Diverged("telemetry")]
        /\ op' = Done("telemetry", "", 1, 0)
        /\ UNCHANGED <<structure_model, system_model, cache_output, schedule, built, asset_model, environment_model, temperatures, forecasts, rt, da, nsim>>

\* the schedule / operator sets the thermostat mode
SetThermostatMode ==
    \E m \in ThermoStatMode :
        /\ states' = [states EXCEPT ![1] = SetAttr(@, "thermostat_mode", m)]
        /\ trail' = [trail EXCEPT ![1] = Diverged("set_mode")]
        /\ op' = Done("set_mode", "", 1, 0)
        /\ UNCHANGED <<structure_model, system_model, cache_output, schedule, built, asset_model, environment_model, temperatures, forecasts, rt, da, nsim>>

\* the object behind a handle: 1 is agent.asset.asset_state, 2 the variable
\* that holds the copy
ObjectOf(handle) == IF handle = 1 THEN 1 ELSE NewStateObject

\* a caller of simulate_time_step gives the state object the attributes the
\* method reads, state.mass_temp and state.hvac_kw
GiveSimulatorAttrs ==
    \E h \in DOMAIN trail :
        /\ ~HasAttr(states[ObjectOf(h)], "mass_temp")
        /\ states' = [states EXCEPT ![ObjectOf(h)] =
                        SetAttr(SetAttr(@, "mass_temp", @.mass_temperature), "hvac_kw", @.hvac_kW)]
        /\ trail' = [trail EXCEPT ![h] = Append(@, <<"setattr", 0>>)]
        /\ op' = Done("setattr", "", h, 0)
        /\ UNCHANGED <<structure_model, system_model, cache_output, schedule, built, asset_model, environment_model, temperatures, forecasts, rt, da, nsim>>

CalcAEI ==
    LET r == calc_AEI(asset_model, environment_model)
    IN  /\ asset_model' = r.self
        /\ op' = Done("calc_AEI", r.exc, 1, 0)
        /\ UNCHANGED <<structure_model, system_model, cache_output, schedule, built, states, environment_model, temperatures, forecasts, rt, da, nsim, trail>>

\* asset_model.simulate_time_step(state, environment_model, temperatures, dt)
\* on the object handle h names
SimulateStep(h, dt) ==
    LET id == ObjectOf(h)
        r == simulate_time_step(asset_model, states[id], temperatures, dt)
    IN  /\ nsim' = nsim + 1
        /\ states' = [states EXCEPT ![id] = r.state]
        /\ trail' = [trail EXCEPT ![h] = Append(@, <<"simulate_time_step", dt>>)]
        /\ op' = [Done("simulate_time_step", r.exc, h, dt) EXCEPT
                    !.pre_on = states[id].hvac_on,
                    !.pre_T = states[id].indoor_air_temp,
                    !.flipped = (r.state.hvac_on # states[id].hvac_on),
                    !.after_flip = (op.name = "simulate_time_step" /\ op.obj = h
                                    /\ op.exc = "" /\ op.flipped)]
        /\ UNCHANGED <<structure_model, system_model, cache_output, schedule, built, asset_model, environment_model, temperatures, forecasts, rt, da>>

SimulateTimeStep ==
    \E h \in DOMAIN trail, dt \in TimeSteps : nsim < MaxSimSteps /\ SimulateStep(h, dt)

\* copy = HVACDSOTAssetState(source_obj = asset_state)
CopyState ==
    /\ DOMAIN trail = {1}
    /\ states' = [i \in DOMAIN states \cup {NewStateObject} |->
                    IF i = NewStateObject THEN HVACDSOTAssetState(states[1]) ELSE states[i]]
    /\ trail' = [h \in {1, 2} |-> <<>>]
    /\ op' = Done("copy", "", 2, 0)
    /\ UNCHANGED <<structure_model, system_model, cache_output, schedule, built, asset_model, environment_model, temperatures, forecasts, rt, da, nsim>>

\* a caller assigns fields of the copy
AssignCopy ==
    /\ 2 \in DOMAIN trail
    /\ states' = [states EXCEPT ![ObjectOf(2)] =
                    SetAttr(SetAttr(@, "indoor_air_temp", Fx(80)), "hvac_on", ~@.hvac_on)]
    /\ trail' = [trail EXCEPT ![2] = Diverged("assign")]
    /\ op' = Done("assign", "", 2, 0)
    /\ UNCHANGED <<structure_model, system_model, cache_output, schedule, built, asset_model, environment_model, temperatures, forecasts, rt, da, nsim>>

\* measurements arrive before the simulated trajectory starts
TelemetryFirst == nsim = 0 /\ Telemetry

SimNext ==
    \/ TelemetryFirst
    \/ SetThermostatMode
    \/ GiveSimulatorAttrs
    \/ CalcAEI
    \/ SimulateTimeStep

SimInit ==
    InitWith({EtpUnit, EtpUnset}, OutsideTemps, {"HeatingSystemType.HEAT_PUMP"},
             {RtCfg}, {DaEmpty}, {<<Fx(30), Fx(50), Fx(20)>>})

\* the simulator on the canonical asset state
SpecSim == SimInit /\ [][SimNext]_vars

\* the lookahead is synchronous: no measurement or mode change arrives while
\* a copy is in use
TelemetryBeforeCopy == DOMAIN trail = {1} /\ TelemetryFirst

SetThermostatModeBeforeCopy == DOMAIN trail = {1} /\ SetThermostatMode

CalcAEIBeforeCopy == DOMAIN trail = {1} /\ CalcAEI

\* the original and the copy are stepped from the moment the copy is made
SimulateTimeStepAfterCopy == 2 \in DOMAIN trail /\ SimulateTimeStep

GiveSimulatorAttrsBeforeCopy == DOMAIN trail = {1} /\ GiveSimulatorAttrs

CopyNext ==
    \/ TelemetryBeforeCopy
    \/ SetThermostatModeBeforeCopy
    \/ GiveSimulatorAttrsBeforeCopy
    \/ CalcAEIBeforeCopy
    \/ SimulateTimeStepAfterCopy
    \/ CopyState
    \/ AssignCopy

CopyInit ==
    InitWith({EtpUnit}, {Fx(95)}, {"HeatingSystemType.HEAT_PUMP"},
             {RtCfg}, {DaEmpty}, {<<Fx(30), Fx(50), Fx(20)>>})

\* the simulator on the canonical asset state and on a copy of it
SpecCopy == CopyInit /\ [][CopyNext]_vars

\* the bidding periods are over
BidsDone == rt.RT_minute_count_interpolation >= 5 * MaxRTPeriods

\* agent.calc_capacites_and_all_heat_flows(): environment_model.calc_all_heat_flows
\* with the arguments the agent passes from the canonical asset state and the
\* system model's capacities
Capacities == {Fx(30)}

\* a heat-flow method of the environment model returned or raised r
HeatFlowsDone(name, r) ==
    /\ environment_model' = r.env
    /\ op' = [Done(name, r.exc, 1, 0) EXCEPT !.ran = r.calls]

CalcAllHeatFlows ==
    \E heating_capacity \in Capacities, cooling_capacity \in Capacities :
        /\ ~BidsDone
        /\ HeatFlowsDone("calc_all_heat_flows",
               calc_all_heat_flows(environment_model, states[1].house_kW, states[1].wh_kW,
                                   states[1].thermostat_mode, states[1].hvac_on,
                                   heating_capacity, cooling_capacity, states[1].hvac_kW))
        /\ UNCHANGED <<structure_model, system_model, cache_output, schedule, built, states, asset_model, temperatures, forecasts, rt, da, nsim, trail>>

\* a caller gives the state and the strategy the attributes the methods read:
\* state.mass_temp and state.hvac_kw (simulate_time_step), price_forecast_0
\* (create_bid) and B_ETP_ON (the lookahead)
GiveAttrs ==
    /\ ~HasAttr(rt, "B_ETP_ON")
    /\ rt' = SetAttr(SetAttr(rt, "price_forecast_0", forecasts.price_forecast_0),
                     "B_ETP_ON", asset_model.B_ETP_ON)
    /\ states' = [states EXCEPT ![1] =
                    SetAttr(SetAttr(@, "mass_temp", @.mass_temperature), "hvac_kw", @.hvac_kW)]
    /\ trail' = [trail EXCEPT ![1] = Append(@, <<"setattr", 0>>)]
    /\ op' = Done("setattr", "", 1, 0)
    /\ UNCHANGED <<structure_model, system_model, cache_output, schedule, built, asset_model, environment_model, temperatures, forecasts, da, nsim>>

\* rt_bidding_strategy.form_rt_bid()
Returned(name, r) ==
    /\ rt' = r.rt
    /\ da' = r.da
    /\ states' = [states EXCEPT ![1] = r.asset_state]
    /\ op' = [Done(name, r.exc, 1, 0) EXCEPT
                !.ran = r.ran, !.starts = r.starts, !.flips = r.flips]
    /\ UNCHANGED <<structure_model, system_model, cache_output, schedule, built, asset_model, environment_model, temperatures, forecasts, nsim, trail>>

FormRtBid ==
    Returned("form_rt_bid",
             form_rt_bid(rt, da, asset_model, states[1], temperatures, forecasts))

\* the agent's period, in the order the test bed and the market loop run it:
\* a measurement, the schedule's mode, the model matrices, the attributes,
\* then heat flows and a bid per market period, then the simulated steps
Stage(name) ==
    CASE name = "init" -> 0
      [] name = "telemetry" -> 1
      [] name = "set_mode" -> 2
      [] name = "calc_AEI" -> 3
      [] name = "setattr" -> 4
      [] name = "calc_all_heat_flows" -> 5
      [] name = "form_rt_bid" -> 6
      [] OTHER -> 7

Measure == Stage(op.name) < 1 /\ Telemetry

Schedule == Stage(op.name) < 2 /\ SetThermostatMode

CalcAEIFirst == Stage(op.name) < 3 /\ CalcAEI

GiveAttrsFirst == Stage(op.name) < 4 /\ GiveAttrs

HeatFlowsOfPeriod == Stage(op.name) \in {0, 1, 2, 3, 4, 6} /\ CalcAllHeatFlows

BidOfPeriod == Stage(op.name) = 5 /\ FormRtBid

SimulateAfterBid == Stage(op.name) \in {6, 7} /\ SimulateTimeStep

Next ==
    \/ Measure
    \/ Schedule
    \/ CalcAEIFirst
    \/ GiveAttrsFirst
    \/ HeatFlowsOfPeriod
    \/ BidOfPeriod
    \/ SimulateAfterBid

Init ==
    \/ InitWith({EtpUnit}, {Fx(60)},
                {"HeatingSystemType.HEAT_PUMP", "HeatingSystemType.GAS"},
                {RtCfg}, {DaSupported}, {<<Fx(30), Fx(50), Fx(20)>>})
    \/ InitWith({EtpUnit}, {Fx(60)}, {"HeatingSystemType.HEAT_PUMP"},
                {RtCfg}, {DaEmpty}, {<<Fx(30), Fx(50), Fx(20)>>})
    \/ InitWith({EtpUnit}, {Fx(60)}, {"HeatingSystemType.HEAT_PUMP"},
                {[RtCfg EXCEPT !.interpolation = TRUE]}, {DaSupported},
                {<<Fx(30), Fx(50), Fx(20)>>})

\* the agent: measurements, the simulator and the real-time bidding path
Spec == Init /\ [][Next]_vars

\* ------------------------------------------------------------------------
\* The heat flows of the environment model on their own
\* ------------------------------------------------------------------------
HouseKWs == {0, Fx(5)}

WhKWs == {0, Fx(1)}

SolarGains == {0, Fx(10)}

\* the values of an optional argument: left out, zero, or a value
Optional(v) == {<<>>, <<0>>, <<v>>}

\* the messaging layer delivers the metered loads into the asset state
LoadTelemetry ==
    \E house_kW \in HouseKWs, wh_kW \in WhKWs, on \in BOOLEAN :
        /\ states' = [states EXCEPT ![1] =
                        SetAttr(SetAttr(SetAttr(SetAttr(@, "house_kW", house_kW),
                            "wh_kW", wh_kW), "hvac_kW", Fx(3)), "hvac_on", on)]
        /\ op' = Done("telemetry", "", 1, 0)
        /\ UNCHANGED <<structure_model, system_model, cache_output, schedule, built, asset_model, environment_model, temperatures,
                       forecasts, rt, da, nsim, trail>>

\* environment_model.calc_solar_gain(...) stored the gain of the hour
CalcSolarGain ==
    \E gain \in SolarGains :
        /\ environment_model' = [environment_model EXCEPT !.solar_gain = gain]
        /\ op' = Done("calc_solar_gain", "", 1, 0)
        /\ UNCHANGED <<structure_model, system_model, cache_output, schedule, built, states, asset_model, temperatures, forecasts, rt,
                       da, nsim, trail>>

\* environment_model.calc_Qi(..., Qh_org)
CalcQi ==
    \E Qh_org \in Optional(0 - Fx(3)) :
        /\ HeatFlowsDone("calc_Qi",
               calc_Qi(environment_model, states[1].house_kW, states[1].wh_kW,
                       states[1].thermostat_mode, states[1].hvac_on, Fx(30), Fx(30),
                       states[1].hvac_kW, Qh_org))
        /\ UNCHANGED <<structure_model, system_model, cache_output, schedule, built, states, asset_model, temperatures, forecasts, rt,
                       da, nsim, trail>>

\* environment_model.calc_Qm(..., Qs, Qi)
CalcQm ==
    \E Qs \in Optional(Fx(5)), Qi \in Optional(Fx(2)) :
        /\ HeatFlowsDone("calc_Qm",
               calc_Qm(environment_model, states[1].house_kW, states[1].wh_kW,
                       states[1].thermostat_mode, states[1].hvac_on, Fx(30), Fx(30),
                       states[1].hvac_kW, Qs, Qi))
        /\ UNCHANGED <<structure_model, system_model, cache_output, schedule, built, states, asset_model, temperatures, forecasts, rt,
                       da, nsim, trail>>

\* environment_model.calc_Qa(..., Qs, Qi, Qh, Qh_org)
CalcQa ==
    \E Qs \in Optional(Fx(5)), Qi \in Optional(Fx(2)), Qh \in Optional(Fx(30)),
       Qh_org \in {<<>>, <<0>>} :
        /\ HeatFlowsDone("calc_Qa",
               calc_Qa(environment_model, states[1].house_kW, states[1].wh_kW,
                       states[1].thermostat_mode, states[1].hvac_on, Fx(30), Fx(30),
                       states[1].hvac_kW, Qs, Qi, Qh, Qh_org))
        /\ UNCHANGED <<structure_model, system_model, cache_output, schedule, built, states, asset_model, temperatures, forecasts, rt,
                       da, nsim, trail>>

HeatInit ==
    InitWith({EtpUnit}, {Fx(60)}, {"HeatingSystemType.HEAT_PUMP"}, {RtCfg}, {DaSupported},
             {<<Fx(30), Fx(50), Fx(20)>>})

\* one period of the environment model: the loads, the thermostat mode and
\* the solar gain arrive, then the heat flows are computed, all at once or
\* one method at a time
HeatStage(name) ==
    CASE name = "init" -> 0
      [] name = "telemetry" -> 1
      [] name = "set_mode" -> 2
      [] name = "calc_solar_gain" -> 3
      [] name = "calc_all_heat_flows" -> 4
      [] OTHER -> 5

LoadsFirst == HeatStage(op.name) = 0 /\ LoadTelemetry

ModeSecond == HeatStage(op.name) = 1 /\ SetThermostatMode

SolarGainThird == HeatStage(op.name) = 2 /\ CalcSolarGain

AllHeatFlows == HeatStage(op.name) \in {3, 5} /\ CalcAllHeatFlows

QiAlone == HeatStage(op.name) \in {3, 4} /\ CalcQi

QmAlone == HeatStage(op.name) \in {3, 4} /\ CalcQm

QaAlone == HeatStage(op.name) \in {3, 4} /\ CalcQa

HeatNext ==
    \/ LoadsFirst
    \/ ModeSecond
    \/ SolarGainThird
    \/ AllHeatFlows
    \/ QiAlone
    \/ QmAlone
    \/ QaAlone

\* the environment model of a constructed agent
SpecHeat == HeatInit /\ [][HeatNext]_vars

\* ------------------------------------------------------------------------
\* create_bid on its own
\* ------------------------------------------------------------------------
QuantityCurves ==
    { <<0, 0, 0, 0, 0>>,
      <<Fx(2), Fx(2), Fx(2), Fx(2), Fx(2)>>,
      <<Fx(1), Fx(1), Fx(2), Fx(3), Fx(3)>>,
      <<0, Fx(1), Fx(3), Fx(6), Fx(6)>>,
      <<Fx(3), Fx(2), Fx(1), 0, 0>> }

QoptDAs == {0 - Fx(1), 0, Fx(2), Fx(4), Fx(7)}

HvacKWs == {0, Fx(3), Fx(5)}

PriceSeries == { <<Fx(30), Fx(50), Fx(20)>>, <<Fx(40), Fx(40), Fx(40)>>,
                 <<0 - Fx(10), Fx(150), Fx(20)>> }

PriceCaps == {0, Fx(40), Fx(100)}

MarginIntercepts == {0, Fx(10)}

MarginSlopes == {0, Fx(20), 0 - Fx(150)}

\* the agent at the point where create_bid is called: the measurement gave
\* hvac_kW, the lookahead left quantity_curve and the interpolation Qopt_DA
BidInit ==
    \E curve \in QuantityCurves, q \in QoptDAs, kw \in HvacKWs, price \in PriceSeries,
       cap \in PriceCaps, mi \in MarginIntercepts, ms \in MarginSlopes :
        /\ states = [i \in {1} |-> [HVACDSOTAssetState_defaults EXCEPT !.hvac_kW = kw]]
        /\ environment_model = EnvironmentModel(Fx(60))
        /\ asset_model = HVACDSOTAssetModel("HeatingSystemType.HEAT_PUMP", EtpUnit,
                                            EnvironmentModel(Fx(60)))
        /\ temperatures = TemperaturesCfg
        /\ forecasts = DSOTForecasts(price)
        /\ rt = [HVACDSOTRTBiddingStrategy(
                     [RtCfg EXCEPT !.price_cap = cap, !.ProfitMargin_intercept = mi,
                                   !.ProfitMargin_slope = ms], RtCfg.period)
                 EXCEPT !.quantity_curve = curve, !.Qopt_DA = q]
        /\ da = DaSupported
        /\ schedule = HVACSchedule(ScheduleCfg)
        /\ built = <<>>
        /\ structure_model = <<>>
        /\ system_model = <<>>
        /\ cache_output = <<>>
        /\ nsim = 0
        /\ trail = [i \in {1} |-> <<>>]
        /\ op = Done("init", "", 1, 0)

\* a caller gives the strategy the attribute create_bid reads, price_forecast_0
GivePriceForecast0 ==
    /\ ~HasAttr(rt, "price_forecast_0")
    /\ rt' = SetAttr(rt, "price_forecast_0", forecasts.price_forecast_0)
    /\ op' = Done("setattr", "", 1, 0)
    /\ UNCHANGED <<structure_model, system_model, cache_output, schedule, built, states, asset_model, environment_model, temperatures, forecasts, da, nsim,
                   trail>>

ReturnedBid(c) ==
    /\ rt' = c.rt
    /\ op' = Done("create_bid", c.exc, 1, 0)
    /\ UNCHANGED <<structure_model, system_model, cache_output, schedule, built, states, asset_model, environment_model, temperatures, forecasts, da, nsim,
                   trail>>

\* rt_bidding_strategy.create_bid()
CreateBid == ~BidsDone /\ ReturnedBid(create_bid(rt, states[1], forecasts))

BidNext ==
    \/ GivePriceForecast0
    \/ CreateBid

SpecBid == BidInit /\ [][BidNext]_vars

\* ------------------------------------------------------------------------
\* HVACDSOTAgent.__init__: the components are constructed one after the
\* other, each through init_class_attributes
\* ------------------------------------------------------------------------
\* largest number of keys in a configuration dictionary
MaxCfgKeys == 2

\* keys a configuration dictionary may carry: two attributes the class has
\* declared when it calls init_class_attributes, one of its methods, and one
\* name that is not an attribute at that point
ConfigKeys(cls) ==
    CASE cls = "HVACDSOTAgent" ->
            {"name", "period", "calc_capacites_and_all_heat_flows", "helics_topic_map"}
      [] cls = "HVACTemperatures" ->
            {"name", "deadband", "validate_inputs", "deadbnd"}
      [] cls = "HVACSchedule" ->
            {"wakeup_start", "ramp_high_limit", "change_basepoint", "basepoint_cooling"}
      [] cls = "HVACDSOTRTBiddingStrategy" ->
            {"slider", "price_cap", "create_bid", "bid_rt"}

\* the dictionaries: up to MaxCfgKeys items with distinct keys
AttrDicts(cls) ==
    {d \in UNION {[1..n -> ConfigKeys(cls) \X {"1"}] : n \in 0..MaxCfgKeys} :
        \A i, j \in DOMAIN d : i # j => d[i][1] # d[j][1]}

CfgInit ==
    /\ built = <<>>
    /\ structure_model = <<>>
    /\ system_model = <<>>
    /\ cache_output = <<>>
    /\ states = <<>>
    /\ asset_model = <<>>
    /\ environment_model = <<>>
    /\ temperatures = <<>>
    /\ forecasts = <<>>
    /\ rt = <<>>
    /\ da = <<>>
    /\ schedule = <<>>
    /\ nsim = 0
    /\ trail = <<>>
    /\ op = [name |-> "init", exc |-> "", cls |-> "", attr |-> <<>>, warnings |-> {}]

\* the constructor of cls ran init_class_attributes, which returned or raised r
Constructed(cls, attr, r) ==
    /\ built' = IF r.exc = "" THEN Append(built, r.obj) ELSE built
    /\ op' = [name |-> "construct", exc |-> r.exc, cls |-> cls, attr |-> attr,
              warnings |-> r.warnings]
    /\ UNCHANGED <<structure_model, system_model, cache_output, states, asset_model, environment_model, temperatures, forecasts, rt, da,
                   schedule, nsim, trail>>

\* the next component's constructor; an exception ends the agent's construction
Construct ==
    /\ op.exc = ""
    /\ Len(built) < Len(Components)
    /\ \E attr \in AttrDicts(Components[Len(built) + 1]) :
          Constructed(Components[Len(built) + 1], attr,
                      init_class_attributes(Declared(Components[Len(built) + 1]), attr,
                                            ClassAttrs(Components[Len(built) + 1])))

CfgNext == Construct

SpecCfg == CfgInit /\ [][CfgNext]_vars

\* ------------------------------------------------------------------------
\* The schedule and the day-ahead strategy of a constructed agent
\* ------------------------------------------------------------------------
Sliders == {0, SCALE \div 2, SCALE}

\* sim_time.hour + sim_time.minute / 60 and look-ahead hours
Hours == {0, Fx(7), Fx(12) + Half, Fx(19), Fx(23) + Half, Fx(31), Fx(47) + Half, Fx(60)}

\* Monday, Friday, Saturday, Sunday
Weekdays == {0, 4, 5, 6}

WindowLengths == {0, 2}

BasepointsCooling == {Fx(70), Fx(74), Fx(78)}

BasepointsHeating == {Fx(72)}

Deadbands == {0, Fx(2)}

\* the scheduled setpoints of the six periods
PeriodSetpoints ==
    [wakeup_set_cool |-> Fx(76), wakeup_set_heat |-> Fx(70),
     daylight_set_cool |-> Fx(80), daylight_set_heat |-> Fx(66),
     evening_set_cool |-> Fx(75), evening_set_heat |-> Fx(71),
     night_set_cool |-> Fx(78), night_set_heat |-> Fx(68),
     weekend_day_set_cool |-> Fx(74), weekend_day_set_heat |-> Fx(72),
     weekend_night_set_cool |-> Fx(77), weekend_night_set_heat |-> Fx(69)]

\* the constructed agent, its configuration drawn from the given sets
DayInitWith(Cooling, Heating, Bands, Windows) ==
    \E bc \in Cooling, bh \in Heating, db \in Bands, w \in Windows :
        /\ temperatures =
               HVACTemperatures(DictUpdate(PeriodSetpoints,
                   [basepoint_cooling |-> bc, basepoint_heating |-> bh, deadband |-> db,
                    cooling_setpoint |-> bc, heating_setpoint |-> bh]))
        /\ schedule = HVACSchedule(ScheduleCfg)
        /\ da = HVACDSOTDABiddingStrategy([name |-> "hvac", windowLength |-> w,
                                           slider |-> SCALE])
        /\ states = [i \in {1} |-> HVACDSOTAssetState_defaults]
        /\ forecasts = SetAttr(DSOTForecasts(<<Fx(30), Fx(50), Fx(20)>>),
                               "outside_air_temperature", <<Fx(60), Fx(70)>>)
        /\ environment_model = EnvironmentModel(Fx(60))
        /\ asset_model = HVACDSOTAssetModel("HeatingSystemType.HEAT_PUMP", EtpUnit,
                                            EnvironmentModel(Fx(60)))
        /\ rt = HVACDSOTRTBiddingStrategy(RtCfg, RtCfg.period)
        /\ built = <<>>
        /\ structure_model = <<>>
        /\ system_model = <<>>
        /\ cache_output = <<>>
        /\ nsim = 0
        /\ trail = [i \in {1} |-> <<>>]
        /\ op = [name |-> "init", exc |-> "", args |-> <<>>, ret |-> <<>>,
                 pre_schedule |-> <<>>, pre_temperatures |-> <<>>, pre_da |-> <<>>,
                 called |-> <<>>, solver |-> "not run"]

\* the record of a call: its arguments, what it returned, the objects as
\* they were before it, the functions it called and the outcome of the
\* solve it ran
DayOp(name, exc, args, ret) ==
    [name |-> name, exc |-> exc, args |-> args, ret |-> ret,
     pre_schedule |-> schedule, pre_temperatures |-> temperatures, pre_da |-> da,
     called |-> <<>>, solver |-> "not run"]

\* a caller gives the schedule the attributes calc_thermostat_settings
\* reads, basepoint_cooling and basepoint_heating
GiveBasepoints ==
    /\ ~HasAttr(schedule, "basepoint_cooling")
    /\ schedule' = SetAttr(SetAttr(schedule, "basepoint_cooling", temperatures.basepoint_cooling),
                           "basepoint_heating", temperatures.basepoint_heating)
    /\ op' = DayOp("setattr", "", <<"schedule">>, <<>>)
    /\ UNCHANGED <<structure_model, system_model, cache_output, states, asset_model, environment_model, temperatures, forecasts, rt, da,
                   built, nsim, trail>>

\* schedule.calc_thermostat_settings(temperatures, slider) returned or raised r
ThermostatSet(slider, r) ==
    /\ schedule' = r.schedule
    /\ temperatures' = r.temperatures
    /\ op' = DayOp("calc_thermostat_settings", r.exc, <<slider>>, <<>>)
    /\ UNCHANGED <<structure_model, system_model, cache_output, states, asset_model, environment_model, forecasts, rt, da, built, nsim,
                   trail>>

CalcThermostatSettings ==
    \E slider \in Sliders :
        ThermostatSet(slider, calc_thermostat_settings(schedule, temperatures, slider))

\* schedule.get_scheduled_setpoint(hour_of_day, day_of_week)
GetScheduledSetpoint ==
    \E hour \in Hours, day \in Weekdays :
        /\ op' = DayOp("get_scheduled_setpoint", "", <<hour, day>>,
                       get_scheduled_setpoint(schedule, temperatures, hour, day))
        /\ UNCHANGED <<structure_model, system_model, cache_output, states, asset_model, environment_model, temperatures, forecasts, rt,
                       da, schedule, built, nsim, trail>>

\* a caller gives the strategy the attributes its methods read (schedule,
\* state, solver) and the state the attribute hvac_kw
GiveDayAheadAttrs ==
    /\ ~HasAttr(da, "schedule")
    /\ da' = SetAttr(SetAttr(SetAttr(da, "schedule", "schedule"), "state", "states[1]"),
                     "solver", "ipopt")
    /\ states' = [states EXCEPT ![1] = SetAttr(@, "hvac_kw", @.hvac_kW)]
    /\ op' = DayOp("setattr", "", <<"da">>, <<>>)
    /\ UNCHANGED <<structure_model, system_model, cache_output, asset_model, environment_model, temperatures, forecasts, rt, schedule,
                   built, nsim, trail>>

\* a method of the strategy returned or raised r
DayAheadDone(name, args, r, ret) ==
    /\ da' = r.da
    /\ op' = DayOp(name, r.exc, args, ret)
    /\ UNCHANGED <<structure_model, system_model, cache_output, states, asset_model, environment_model, temperatures, forecasts, rt,
                   schedule, built, nsim, trail>>

\* the scheduled pairs <<cooling, heating>> of the six periods
ScheduledPairs(t) ==
    {<<t.wakeup_set_cool, t.wakeup_set_heat>>, <<t.daylight_set_cool, t.daylight_set_heat>>,
     <<t.evening_set_cool, t.evening_set_heat>>, <<t.night_set_cool, t.night_set_heat>>,
     <<t.weekend_day_set_cool, t.weekend_day_set_heat>>,
     <<t.weekend_night_set_cool, t.weekend_night_set_heat>>}

\* da.update_da_indoor_temperature_limits(cooling_setpt, heating_setpt) with
\* a scheduled pair
UpdateDaIndoorTemperatureLimits ==
    \E sp \in ScheduledPairs(temperatures) :
        DayAheadDone("update_da_indoor_temperature_limits", sp,
                     update_da_indoor_temperature_limits(da, schedule, temperatures,
                                                         sp[1], sp[2]),
                     <<>>)

\* da.get_uncntrl_hvac_load(sim_time)
UncntrlLoadDone(args, r) == DayAheadDone("get_uncntrl_hvac_load", args, r, r.ret)

GetUncntrlHvacLoad ==
    \E hour \in {Fx(7), Fx(23) + Half}, day \in {0, 5} :
        UncntrlLoadDone(<<hour, day>>,
                        get_uncntrl_hvac_load(da, schedule, temperatures, forecasts, hour, day))

\* da.solve_for_da_optimal_quantities(), the solver ending in some outcome
SolveDone(outcome, r) ==
    /\ op' = [DayOp("solve_for_da_optimal_quantities", r.exc, <<outcome>>, r.ret)
              EXCEPT !.called = r.called, !.solver = r.solver]
    /\ UNCHANGED <<structure_model, system_model, cache_output, states, asset_model, environment_model, temperatures, forecasts, rt, da,
                   schedule, built, nsim, trail>>

SolveForDaOptimalQuantities ==
    \E outcome \in SolverOutcomes :
        SolveDone(outcome, solve_for_da_optimal_quantities(da, states[1], outcome))

SchedInit == DayInitWith(BasepointsCooling, BasepointsHeating, Deadbands, {2})

SchedNext ==
    \/ GiveBasepoints
    \/ CalcThermostatSettings
    \/ GetScheduledSetpoint

\* the schedule of a constructed agent
SpecSched == SchedInit /\ [][SchedNext]_vars

DayInit == DayInitWith({Fx(74)}, {Fx(72)}, {Fx(2)}, WindowLengths)

DayNext ==
    \/ GiveBasepoints
    \/ CalcThermostatSettings
    \/ GiveDayAheadAttrs
    \/ UpdateDaIndoorTemperatureLimits
    \/ GetUncntrlHvacLoad
    \/ SolveForDaOptimalQuantities

\* the day-ahead strategy of a constructed agent
SpecDay == DayInit /\ [][DayNext]_vars

\* ------------------------------------------------------------------------
\* Properties
\* ------------------------------------------------------------------------
SimReturned(o) == o.name = "simulate_time_step" /\ o.exc = ""

HalfDeadband == temperatures.deadband \div 2

\* T lies in [setpoint - deadband/2, setpoint + deadband/2] of the mode's setpoint
WithinBand(T, mode) ==
    \/ (mode = COOLING /\ T >= temperatures.cooling_setpoint - HalfDeadband
                       /\ T <= temperatures.cooling_setpoint + HalfDeadband)
    \/ (mode = HEATING /\ T >= temperatures.heating_setpoint - HalfDeadband
                       /\ T <= temperatures.heating_setpoint + HalfDeadband)

\* C5: in a simulate_time_step that returns, with T the indoor temperature
\* propagated with the forcing vector chosen by hvac_on before the step, a
\* running unit switches off exactly when (COOLING and T < cooling_setpoint -
\* deadband/2) or (HEATING and T > heating_setpoint + deadband/2), an idle
\* unit switches on exactly when (COOLING and T > cooling_setpoint +
\* deadband/2) or (HEATING and T < heating_setpoint - deadband/2), and
\* otherwise hvac_on keeps its value.
C5_HysteresisRule ==
    [][SimReturned(op') =>
         LET id == ObjectOf(op'.obj)
             was == states[id].hvac_on
             mode == states[id].thermostat_mode
             B == IF was THEN asset_model.B_ETP_ON ELSE asset_model.B_ETP_OFF
             T == Propagate(asset_model.A_ETP, asset_model.AEI, B,
                            <<states[id].indoor_air_temp, states[id].mass_temp>>, op'.arg)[1]
             now == states'[id].hvac_on
         IN  /\ states'[id].indoor_air_temp = T
             /\ was =>
                  (~now <=> \/ (mode = COOLING /\ T < temperatures.cooling_setpoint - HalfDeadband)
                            \/ (mode = HEATING /\ T > temperatures.heating_setpoint + HalfDeadband))
             /\ ~was =>
                  (now <=> \/ (mode = COOLING /\ T > temperatures.cooling_setpoint + HalfDeadband)
                           \/ (mode = HEATING /\ T < temperatures.heating_setpoint - HalfDeadband))
      ]_vars

\* a running unit in cooling mode was switched off by a step of the computed model
C5_Witness ==
    /\ SimReturned(op)
    /\ op.pre_on
    /\ ~states[ObjectOf(op.obj)].hvac_on
    /\ states[ObjectOf(op.obj)].thermostat_mode = COOLING
    /\ asset_model.AEI # Zeros22

\* C6: a simulate_time_step changes hvac_on only if the indoor temperature
\* after the step lies strictly outside [setpoint - deadband/2, setpoint +
\* deadband/2] of the active mode's setpoint; with the thermostat mode OFF
\* (or undefined) no step changes hvac_on.
C6_FlipsOnlyOutsideBand ==
    [][(SimReturned(op') /\ states'[ObjectOf(op'.obj)].hvac_on # states[ObjectOf(op'.obj)].hvac_on)
         => LET id == ObjectOf(op'.obj)
                mode == states[id].thermostat_mode
            IN  /\ mode \in {COOLING, HEATING}
                /\ ~WithinBand(states'[id].indoor_air_temp, mode)
      ]_vars

\* a step in heating mode flipped hvac_on
C6_Witness ==
    /\ SimReturned(op)
    /\ op.flipped
    /\ states[ObjectOf(op.obj)].thermostat_mode = HEATING
    /\ asset_model.AEI # Zeros22

\* C7: no chatter: when a simulate_time_step flipped hvac_on and the call
\* right after it, on the same state with the same setpoints, deadband, mode
\* and environment, ends with the indoor temperature inside the deadband,
\* that second call does not flip hvac_on.
C7_NoChatter ==
    [][(/\ SimReturned(op) /\ op.flipped
        /\ SimReturned(op') /\ op'.obj = op.obj
        /\ WithinBand(states'[ObjectOf(op.obj)].indoor_air_temp,
                      states[ObjectOf(op.obj)].thermostat_mode))
         => states'[ObjectOf(op.obj)].hvac_on = states[ObjectOf(op.obj)].hvac_on
      ]_vars

\* a step right after a flip ended inside the deadband
C7_Witness ==
    /\ SimReturned(op)
    /\ op.after_flip
    /\ WithinBand(states[ObjectOf(op.obj)].indoor_air_temp,
                  states[ObjectOf(op.obj)].thermostat_mode)
    /\ asset_model.AEI # Zeros22

\* C9: a state built with HVACDSOTAssetState(source_obj = s) equals s field by
\* field; the same sequence of simulate_time_step calls on s and on the copy
\* leaves them equal after every step; stepping or assigning to the copy
\* changes no field of s.
C9_CopyValueSemantics ==
    /\ [](2 \in DOMAIN trail /\ trail[1] = trail[2] => states[ObjectOf(2)] = states[1])
    /\ [][(op'.obj = 2 /\ op'.name \in {"assign", "simulate_time_step"})
            => states'[1] = states[1]]_vars

\* the original and its copy were both stepped, by the computed model, and agree
C9_Witness ==
    /\ 2 \in DOMAIN trail
    /\ trail[1] = trail[2]
    /\ Len(trail[1]) = 1
    /\ SimReturned(op)
    /\ states[1].indoor_air_temp # op.pre_T
    /\ HasAttr(states[ObjectOf(2)], "mass_temp")
    /\ asset_model.AEI # Zeros22

\* C10: after a simulate_time_step that returns, the state's indoor_air_temp
\* and mass_temperature hold the air and mass temperatures propagated from
\* the values those two fields had before the call.
C10_StateHoldsPropagated ==
    [][SimReturned(op') =>
         LET id == ObjectOf(op'.obj)
             B == IF states[id].hvac_on THEN asset_model.B_ETP_ON ELSE asset_model.B_ETP_OFF
             x == Propagate(asset_model.A_ETP, asset_model.AEI, B,
                            <<states[id].indoor_air_temp, states[id].mass_temperature>>,
                            op'.arg)
         IN  /\ states'[id].indoor_air_temp = x[1]
             /\ states'[id].mass_temperature = x[2]
      ]_vars

\* a bid was returned by create_bid or by form_rt_bid
BidReturned == op.name \in {"create_bid", "form_rt_bid"} /\ op.exc = ""

\* C1: every bid returned by create_bid has non-decreasing quantities
\* q0 <= q1 <= q2 <= q3, whatever the quantity curve, Qopt_DA, the forecast
\* prices, hvac_kW >= 0 and price_cap >= 0 are.
C1_QuantitiesNonDecreasing ==
    BidReturned => \A i \in 1..3 : rt.bid_rt[i][1] <= rt.bid_rt[i + 1][1]

\* a bid with Qopt_DA strictly between the curve's extremes, cut at hvac_kW
C1_Witness ==
    /\ BidReturned
    /\ rt.RT_Q_min < rt.Qopt_DA
    /\ rt.Qopt_DA < rt.RT_Q_max
    /\ rt.RT_Q_max > states[1].hvac_kW
    /\ rt.bid_rt[1][1] < rt.bid_rt[2][1]

\* C2: each of the four points of a returned bid has its quantity in
\* [0, hvac_kW] and its price in [0, price_cap].
C2_PointsWithinLimits ==
    BidReturned =>
        \A i \in 1..4 : /\ 0 <= rt.bid_rt[i][1] /\ rt.bid_rt[i][1] <= states[1].hvac_kW
                        /\ 0 <= rt.bid_rt[i][2] /\ rt.bid_rt[i][2] <= rt.price_cap

\* a bid that was cut at hvac_kW, at the price cap and at the price floor
C2_Witness ==
    /\ BidReturned
    /\ rt.RT_Q_max > states[1].hvac_kW
    /\ rt.bid_rt[4][1] = states[1].hvac_kW
    /\ rt.price_cap > 0
    /\ \E i \in 1..4 : rt.bid_rt[i][2] = rt.price_cap
    /\ \E i \in 1..4 : rt.bid_rt[i][2] = 0

\* C3: when form_rt_bid is called while the heating system type is not
\* HEAT_PUMP and the thermostat mode is HEATING, it returns the zero bid
\* [[0,0],[0,0],[0,0],[0,0]] and runs neither the interpolation, nor the
\* lookahead, nor create_bid.
C3_ExcludedGetsZeroBid ==
    (/\ op.name = "form_rt_bid"
     /\ asset_model.heating_system_type # "HeatingSystemType.HEAT_PUMP"
     /\ states[1].thermostat_mode = HEATING)
        => (/\ op.exc = ""
            /\ op.ran = <<>>
            /\ HasAttr(rt, "bid_rt")
            /\ rt.bid_rt = ZeroBid)

\* C4: form_rt_bid, with the lookahead it runs, leaves the canonical asset
\* state and the environment model as they were, and every candidate of the
\* lookahead starts from the canonical indoor_air_temp, mass_temperature and
\* hvac_on.
C4_LookaheadLeavesCanonical ==
    [][op'.name = "form_rt_bid" =>
         /\ states'[1] = states[1]
         /\ environment_model' = environment_model
         /\ \A k \in DOMAIN op'.starts :
               op'.starts[k] = [x |-> <<states[1].indoor_air_temp, states[1].mass_temperature>>,
                                on |-> states[1].hvac_on]
      ]_vars

\* a lookahead over all candidates, of the computed model, in which the
\* simulated unit switched
C4_Witness ==
    /\ op.name = "form_rt_bid"
    /\ op.exc = ""
    /\ Len(op.starts) = npt
    /\ op.flips > 0
    /\ asset_model.AEI # Zeros22
    /\ states[1].indoor_air_temp > 0
    /\ states[1].hvac_kW > 0

\* C8: simulate_time_step, form_rt_bid (with the lookahead and create_bid it
\* runs), calc_all_heat_flows and calc_AEI never change thermostat_mode, nor
\* any field of the asset state other than the temperatures and hvac_on.
C8_ModeIsExogenous ==
    [][op'.name \in {"simulate_time_step", "form_rt_bid", "calc_all_heat_flows", "calc_AEI"}
         => \A f \in {"thermostat_mode", "hvac_kW", "wh_kW", "house_kW", "mtr_v"} :
               states'[1][f] = states[1][f]
      ]_vars

\* after a bid, a simulated step in an active mode flipped hvac_on
C8_Witness ==
    /\ SimReturned(op)
    /\ op.flipped
    /\ rt.RT_minute_count_interpolation > 0
    /\ states[1].thermostat_mode \in {COOLING, HEATING}

C12_SolverFailureFallsBack ==
    (op.name = "solve_for_da_optimal_quantities" /\ op.solver \in {"failed", "timeout"})
        => /\ op.exc = ""
           /\ \E i \in DOMAIN op.called : op.called[i] = "get_uncntrl_hvac_load"

\* ------------------------------------------------------------------------
\* C13 (as stated): after calc_thermostat_settings with slider = 0 the four
\* ramps are exactly 0, and with a slider in (0, 1] each ramp is the limit
\* of its own name multiplied by the slider.
\* ------------------------------------------------------------------------
C13_RampsGrowWithSlider ==
    op.name = "calc_thermostat_settings" =>
        LET slider == op.args[1]
        IN  /\ schedule.ramp_high_cool * SCALE = schedule.ramp_high_limit * slider
            /\ schedule.ramp_low_cool * SCALE = schedule.ramp_low_limit * slider
            /\ schedule.ramp_high_heat * SCALE = schedule.ramp_high_limit * slider
            /\ schedule.ramp_low_heat * SCALE = schedule.ramp_low_limit * slider

\* C13 (amended): after calc_thermostat_settings with slider = 0 the four
\* ramps are exactly 0; with a slider in (0, 1] each ramp is a limit
\* multiplied by (1 - slider): ramp_high_cool and ramp_low_heat the
\* ramp_high_limit, ramp_low_cool and ramp_high_heat the ramp_low_limit.
C13_RampsShrinkWithSlider ==
    op.name = "calc_thermostat_settings" =>
        LET slider == op.args[1]
            rest == IF slider = 0 THEN 0 ELSE SCALE - slider
        IN  /\ schedule.ramp_high_cool * SCALE = schedule.ramp_high_limit * rest
            /\ schedule.ramp_low_cool * SCALE = schedule.ramp_low_limit * rest
            /\ schedule.ramp_high_heat * SCALE = schedule.ramp_low_limit * rest
            /\ schedule.ramp_low_heat * SCALE = schedule.ramp_high_limit * rest

\* a call with slider 1/2 that left non-zero ramps, after a call with slider 0
C13_Witness ==
    /\ op.name = "calc_thermostat_settings"
    /\ op.args[1] = SCALE \div 2
    /\ schedule.ramp_high_cool > schedule.ramp_high_heat
    /\ schedule.ramp_high_heat > 0
    /\ op.pre_schedule.range_high_cool = 0
    /\ op.pre_schedule.ramp_high_limit = schedule.ramp_high_limit

\* ------------------------------------------------------------------------
\* The agent configured with slider = 0
\* ------------------------------------------------------------------------
FlatInit ==
    InitWith({EtpUnit}, {Fx(60)},
             {"HeatingSystemType.HEAT_PUMP", "HeatingSystemType.GAS"},
             {[RtCfg EXCEPT !.slider = 0]}, {DaSupported}, {<<Fx(30), Fx(50), Fx(20)>>})

SpecFlat == FlatInit /\ [][Next]_vars

\* the distinct prices among the four points of a bid
PriceLevels(bid) == {bid[i][2] : i \in 1..4}

FlatCurveBid ==
    /\ op.name = "create_bid"
    /\ op.exc = ""
    /\ rt.RT_Q_min = rt.RT_Q_max

\* v limited to [lo, hi] as the clamp loop limits it: the cap first
Limited(v, lo, hi) == IF v > hi THEN (IF hi < lo THEN lo ELSE hi) ELSE IF v < lo THEN lo ELSE v

\* (ProfitMargin_intercept / 100) * delta_DA_price
ProfitMargin ==
    (rt.ProfitMargin_intercept * (MaxOf(forecasts.price) - MinOf(forecasts.price)))
        \div (100 * SCALE)

\* C15 (as stated): when all candidate quantities are equal, points 0 and 1
\* of the bid are priced at max(forecast price) and points 2 and 3 at
\* min(forecast price), each limited to [0, price_cap], and the quantities
\* are [Q_min, Q_min, Q_max, Q_max].
\* ------------------------------------------------------------------------
C15_FlatAtForecastExtremes ==
    FlatCurveBid =>
        /\ \A i \in {1, 2} : rt.bid_rt[i][2] = Limited(MaxOf(forecasts.price), 0, rt.price_cap)
        /\ \A i \in {3, 4} : rt.bid_rt[i][2] = Limited(MinOf(forecasts.price), 0, rt.price_cap)
        /\ \A i \in {1, 2} : rt.bid_rt[i][1] = rt.RT_Q_min
        /\ \A i \in {3, 4} : rt.bid_rt[i][1] = rt.RT_Q_max

\* C15 (amended): when all candidate quantities are equal, points 0 and 1
\* are priced at max(forecast price) plus the profit margin and points 2
\* and 3 at min(forecast price) minus it, the margin being
\* ProfitMargin_intercept / 100 * (max - min of the forecast price); each
\* price is then limited to [0, price_cap] and each quantity, Q_min for
\* points 0 and 1 and Q_max for points 2 and 3, to [0, hvac_kW].
C15_FlatAtExtremesWithMargin ==
    FlatCurveBid =>
        /\ \A i \in {1, 2} :
               rt.bid_rt[i][2] = Limited(MaxOf(forecasts.price) + ProfitMargin, 0, rt.price_cap)
        /\ \A i \in {3, 4} :
               rt.bid_rt[i][2] = Limited(MinOf(forecasts.price) - ProfitMargin, 0, rt.price_cap)
        /\ \A i \in {1, 2} : rt.bid_rt[i][1] = Limited(rt.RT_Q_min, 0, states[1].hvac_kW)
        /\ \A i \in {3, 4} : rt.bid_rt[i][1] = Limited(rt.RT_Q_max, 0, states[1].hvac_kW)

\* a flat curve priced above and below the forecast's extremes, inside the cap
C15_Witness ==
    /\ FlatCurveBid
    /\ rt.RT_Q_min > 0
    /\ rt.bid_rt[1][1] = rt.RT_Q_min
    /\ rt.bid_rt[1][2] > MaxOf(forecasts.price)
    /\ rt.bid_rt[1][2] < rt.price_cap
    /\ rt.bid_rt[4][2] < MinOf(forecasts.price)
    /\ rt.bid_rt[4][2] > 0

\* ------------------------------------------------------------------------
\* C16: after every call of calc_thermostat_settings the basepoints held for
\* the thermostat are separated by the deadband:
\* basepoint_cooling - deadband/2 >= basepoint_heating + deadband/2.
\* ------------------------------------------------------------------------
C16_BasepointsSeparated ==
    op.name = "calc_thermostat_settings" =>
        temperatures.basepoint_cooling - HalfDeadband
            >= temperatures.basepoint_heating + HalfDeadband

\* ------------------------------------------------------------------------
\* the overlap test of lines 389, 405 and 1786: the heating value plus half
\* the deadband plus 0.5 lies above the cooling value minus the same
Overlapping(cool, heat) == heat + HalfDeadband + Half > cool - HalfDeadband - Half

\* the pair <<c1, h1>> keeps the midpoint of <<c0, h0>> and neither value
\* lies farther from it than before
PulledToMidpoint(c0, h0, c1, h1) ==
    /\ c1 + h1 = c0 + h0
    /\ Abs(2 * c1 - (c0 + h0)) <= Abs(2 * c0 - (c0 + h0))
    /\ Abs(2 * h1 - (c0 + h0)) <= Abs(2 * h0 - (c0 + h0))

\* the pair <<c1, h1>> lies deadband/2 + 0.5 above and below the midpoint of
\* <<c0, h0>>, the upper value capped at cap and the lower floored at floor
PlacedAboutMidpoint(c0, h0, c1, h1, cap, floor) ==
    LET up == (c0 + h0 + 2 * HalfDeadband + SCALE) \div 2
        down == (c0 + h0 - 2 * HalfDeadband - SCALE) \div 2
    IN  /\ c1 = IF up > cap THEN cap ELSE up
        /\ h1 = IF down < floor THEN floor ELSE down

\* the three corrections, each as <<start cool, start heat, end cool, end
\* heat, cap, floor>>: the basepoints and the limits of a returned
\* calc_thermostat_settings, the limits of a returned
\* update_da_indoor_temperature_limits; the basepoints have no cap and no
\* floor (a cap and a floor no temperature reaches)
Corrections ==
    IF op.exc # "" THEN {}
    ELSE IF op.name = "calc_thermostat_settings"
    THEN {<<op.pre_schedule.basepoint_cooling, op.pre_schedule.basepoint_heating,
            schedule.basepoint_cooling, schedule.basepoint_heating,
            Fx(1000), 0 - Fx(1000)>>,
          <<schedule.basepoint_cooling - schedule.range_low_cool,
            schedule.basepoint_heating + schedule.range_high_heat,
            temperatures.temp_min_cool, temperatures.temp_max_heat,
            schedule.basepoint_cooling, schedule.basepoint_heating>>}
    ELSE IF op.name = "update_da_indoor_temperature_limits"
    THEN {<<op.args[1] - schedule.range_low_cool, op.args[2] + schedule.range_high_heat,
            da.temp_min_cool_da, da.temp_max_heat_da, op.args[1], op.args[2]>>}
    ELSE {}

ClockHour(hour_of_day) == hour_of_day % Fx(24)

ClockDay(hour_of_day, day_of_week) == (day_of_week + hour_of_day \div Fx(24)) % 7

\* the scheduled pair of the period whose half-open interval holds `hour`
PeriodOf(hour, day) ==
    IF day > 4
    THEN IF schedule.weekend_day_start <= hour /\ hour < schedule.weekend_night_start
         THEN <<temperatures.weekend_day_set_cool, temperatures.weekend_day_set_heat>>
         ELSE <<temperatures.weekend_night_set_cool, temperatures.weekend_night_set_heat>>
    ELSE IF schedule.wakeup_start <= hour /\ hour < schedule.daylight_start
         THEN <<temperatures.wakeup_set_cool, temperatures.wakeup_set_heat>>
         ELSE IF schedule.daylight_start <= hour /\ hour < schedule.evening_start
         THEN <<temperatures.daylight_set_cool, temperatures.daylight_set_heat>>
         ELSE IF schedule.evening_start <= hour /\ hour < schedule.night_start
         THEN <<temperatures.evening_set_cool, temperatures.evening_set_heat>>
         ELSE <<temperatures.night_set_cool, temperatures.night_set_heat>>

\* C18: for every hour of day (fractional and look-ahead hours included) and
\* every day of the week, get_scheduled_setpoint returns the setpoints of the
\* period whose half-open hour interval contains the clock hour, on the day
\* of the week that hour falls on.
\* ------------------------------------------------------------------------
C18_PeriodOfClockHour ==
    op.name = "get_scheduled_setpoint" =>
        op.ret = PeriodOf(ClockHour(op.args[1]), ClockDay(op.args[1], op.args[2]))

\* ------------------------------------------------------------------------
\* C19: after calc_Qi and after calc_all_heat_flows the stored Qi is >= 0,
\* and is 0 whenever house_kW - |Qh_org| - wh_kW <= 0.
\* ------------------------------------------------------------------------
C19_QiFlooredAtZero ==
    (op.name \in {"calc_Qi", "calc_all_heat_flows"} /\ op.exc = "") =>
        /\ environment_model.Qi >= 0
        /\ (states[1].house_kW - Abs(environment_model.Qh_org) - states[1].wh_kW <= 0
               => environment_model.Qi = 0)

\* ------------------------------------------------------------------------
\* C20: calc_all_heat_flows runs calc_Qs, calc_Qh, calc_Qi, calc_Qm and
\* calc_Qa in this order and nothing else: calc_Qi, calc_Qm and calc_Qa
\* compute no upstream term again, whatever the upstream values are (zero
\* included), and the stored terms are the ones computed once.
\* ------------------------------------------------------------------------
C20_EachTermOnceInOrder ==
    op.name = "calc_all_heat_flows" =>
        /\ op.exc = ""
        /\ op.ran = <<"calc_Qs", "calc_Qh", "calc_Qi", "calc_Qm", "calc_Qa">>
        /\ environment_model.Qs * SCALE
               = environment_model.solar_gain * environment_model.solar_heatgain_factor
        /\ environment_model.Qm
               = FMul(environment_model.mass_internal_gain_fraction, environment_model.Qi)
                 + FMul(environment_model.mass_solar_gain_fraction, environment_model.Qs)
        /\ environment_model.Qa_ON = environment_model.Qh + environment_model.Qa_OFF

\* all heat flows computed with the unit off, no solar gain and no internal
\* gain: every upstream value handed on is zero
C20_Witness ==
    /\ op.name = "calc_all_heat_flows"
    /\ op.exc = ""
    /\ environment_model.Qs = 0
    /\ environment_model.Qi = 0
    /\ environment_model.Qh = 0
    /\ environment_model.Qh_org = 0
    /\ states[1].hvac_kW > 0

\* ------------------------------------------------------------------------
\* HVACDSOTStructureModel: the structure's areas and ETP parameters
\* ------------------------------------------------------------------------
RECURSIVE SqrtBetween(_, _, _)
\* the largest r in lo..hi with r * r <= n (lo * lo <= n)
SqrtBetween(n, lo, hi) ==
    IF lo >= hi THEN lo
    ELSE LET mid == (lo + hi + 1) \div 2
         IN  IF mid * mid <= n THEN SqrtBetween(n, mid, hi)
             ELSE SqrtBetween(n, lo, mid - 1)

\* math.sqrt of a fixed-point number, 0 <= x
sqrt(x) == SqrtBetween(x * SCALE, 0, 46340)

\* ETPStructureParams.__init__
ETPStructureParams == [UA |-> 0, CA |-> 0, HM |-> 0, CM |-> 0]

\* the conductances 1.0 / Rg is looked up from, in hundredths, by glazing
\* layers, then by frame: NONE, ALUMINUM, THERMAL_BREAK, WOOD, INSULATED
Frames ==
    <<"WindowFrameType.NONE", "WindowFrameType.ALUMINUM", "WindowFrameType.THERMAL_BREAK",
      "WindowFrameType.WOOD", "WindowFrameType.INSULATED">>

LowEConductance ==
    <<<<>>, <<30, 67, 47, 41, 33>>, <<27, 64, 43, 37, 31>>>>

NormalConductance ==
    <<<<104, 127, 108, 90, 81>>, <<48, 81, 60, 53, 44>>, <<31, 67, 46, 40, 34>>>>

\* the entry of a conductance table for self's layers and frame, <<>> when
\* no branch of the lookup matches
Conductance(self, table) ==
    IF self.glazing_layers \in DOMAIN table
    THEN LET row == table[self.glazing_layers]
         IN  IF \E f \in DOMAIN row : Frames[f] = self.window_frame_type
             THEN <<row[CHOOSE f \in DOMAIN row : Frames[f] = self.window_frame_type]>>
             ELSE <<>>
    ELSE <<>>

\* HVACDSOTStructureModel.lookup_Rwindow: Rg is left as it was when no
\* branch matches (one pane of low-e glass only prints an error)
lookup_Rwindow(self) ==
    LET found == IF self.glass_type = "WindowGlassType.LOW_E"
                     THEN Conductance(self, LowEConductance)
                 ELSE IF self.glass_type = "WindowGlassType.NORMAL"
                     THEN Conductance(self, NormalConductance)
                 ELSE <<>>
    IN  IF self.glass_type = "WindowGlassType.OTHER" THEN [self EXCEPT !.Rg = Fx(2)]
        ELSE IF found # <<>> THEN [self EXCEPT !.Rg = FDiv(Fx(1), 10 * found[1])]
        ELSE self

\* HVACDSOTStructureModel.validate_attributes: a zero exterior_wall_fraction
\* is read and left as it is; the other checks only log
validate_attributes(self) ==
    LET a == IF self.aspect_ratio = 0 THEN [self EXCEPT !.aspect_ratio = 3 * Half] ELSE self
        b == IF a.exterior_ceiling_fraction = 0
             THEN [a EXCEPT !.exterior_ceiling_fraction = Fx(1)] ELSE a
        c == IF b.exterior_floor_fraction = 0
             THEN [b EXCEPT !.exterior_floor_fraction = Fx(1)] ELSE b
    IN  IF c.WETC <= 0 THEN [c EXCEPT !.WETC = 6 * (SCALE \div 10)] ELSE c

\* HVACDSOTStructureModel.calc_structure_areas
calc_structure_areas(self) ==
    LET ceiling_area == FMul(FDiv(self.sqft, self.stories), self.exterior_ceiling_fraction)
        floor_area == FMul(FDiv(self.sqft, self.stories), self.exterior_floor_fraction)
        perimeter == FMul(2 * (Fx(1) + self.aspect_ratio),
                          sqrt(FDiv(ceiling_area, self.aspect_ratio)))
        gross_exterior_wall_area == FMul(FMul(self.stories, self.ceiling_height), perimeter)
        gross_window_area == FMul(FMul(self.window_wall_ratio, gross_exterior_wall_area),
                                  self.exterior_wall_fraction)
        total_door_area == FMul(self.doors, self.single_door_area)
    IN  [self EXCEPT
            !.ceiling_area = ceiling_area,
            !.floor_area = floor_area,
            !.perimeter = perimeter,
            !.gross_exterior_wall_area = gross_exterior_wall_area,
            !.gross_window_area = gross_window_area,
            !.total_door_area = total_door_area,
            !.net_wall_area = FMul(gross_exterior_wall_area - gross_window_area
                                       - total_door_area,
                                   self.exterior_wall_fraction),
            !.interior_air_heat_capacity =
                FMul(FMul(self.sqft, self.ceiling_height), self.gross_air_heat_capacity)]

\* HVACDSOTStructureModel.div with the default def_val_if_zero_denom
div(numerator, denominator) ==
    IF denominator # 0 THEN FDiv(numerator, denominator) ELSE 0

\* HVACDSOTStructureModel.calc_UA
calc_UA(self) ==
    div(self.ceiling_area, self.Rroof)
        + div(self.floor_area, self.Rfloor)
        + div(self.net_wall_area, self.Rwall)
        + div(self.gross_window_area, self.Rg)
        + div(self.total_door_area, self.Rdoors)

\* HVACDSOTStructureModel.calc_CA
calc_CA(self) == 3 * self.interior_air_heat_capacity

\* HVACDSOTStructureModel.calc_HM: its quotients are plain divisions, so the
\* result is [exc, val]
calc_HM(self) ==
    IF self.exterior_wall_fraction = 0 \/ self.exterior_ceiling_fraction = 0
    THEN [exc |-> "ZeroDivisionError", val |-> 0]
    ELSE [exc |-> "",
          val |-> FMul(self.interior_heat_transfer_coefficient,
                       FDiv(self.net_wall_area, self.exterior_wall_fraction)
                         + FMul(self.gross_exterior_wall_area,
                                self.interior_exterior_wall_ratio)
                         + FDiv(FMul(self.ceiling_area, self.stories),
                                self.exterior_ceiling_fraction))]

\* HVACDSOTStructureModel.calc_CM
calc_CM(self) ==
    FMul(self.sqft, self.thermal_mass_per_floor_area) - 2 * self.interior_air_heat_capacity

\* HVACDSOTStructureModel.calc_structure_ETP_parameters: UA, CA, HM and CM in
\* that order; an exception leaves the parameters after it as they were
calc_structure_ETP_parameters(self) ==
    LET hm == calc_HM(self)
        uaca == [self.etp_structure_params EXCEPT !.UA = calc_UA(self), !.CA = calc_CA(self)]
    IN  IF hm.exc # ""
        THEN [exc |-> hm.exc, obj |-> [self EXCEPT !.etp_structure_params = uaca]]
        ELSE [exc |-> "",
              obj |-> [self EXCEPT !.etp_structure_params =
                          [uaca EXCEPT !.HM = hm.val, !.CM = calc_CM(self)]]]

\* HVACDSOTStructureModel.__init__: the enumeration members named by the
\* dictionary, the calculated attributes, then init_class_attributes, which
\* sets every key of the dictionary and so puts the plain names back in
\* place of the members; then validation, the areas, the window resistance
\* and the ETP parameters
HVACDSOTStructureModel(attributes) ==
    LET declared == [k \in {"ceiling_area", "floor_area", "perimeter",
                            "gross_exterior_wall_area", "gross_window_area",
                            "total_door_area", "net_wall_area",
                            "interior_air_heat_capacity", "single_door_area",
                            "solar_heatgain_factor", "Rg"}
                        |-> 0]
        members == [glass_type |-> "WindowGlassType." \o attributes.glass_type,
                    window_frame_type |-> "WindowFrameType." \o attributes.window_frame_type]
        given == [k \in DOMAIN declared \cup DOMAIN attributes \cup {"etp_structure_params"}
                    |-> IF k \in DOMAIN attributes THEN attributes[k]
                        ELSE IF k \in DOMAIN members THEN members[k]
                        ELSE IF k = "etp_structure_params" THEN ETPStructureParams
                        ELSE declared[k]]
    IN  calc_structure_ETP_parameters(
            lookup_Rwindow(calc_structure_areas(validate_attributes(given))))

\* the structure configurations explored: houses of one or two stories,
\* with light or heavy thermal mass, few or many doors, walls that are or
\* are not exterior, and two kinds of glazing
Sqfts == {Fx(400), Fx(1600)}

StoriesSet == {Fx(1), Fx(2)}

DoorCounts == {Fx(0), Fx(2), Fx(40)}

DoorAreas == {0, Fx(20)}

ThermalMasses == {Fx(1), Fx(2)}

WallFractions == {0, Fx(1)}

Glazings == {<<"OTHER", 2>>, <<"LOW_E", 1>>}

StructureAttributes ==
    {[sqft |-> sq, stories |-> st, doors |-> d, single_door_area |-> da_,
      thermal_mass_per_floor_area |-> tm, exterior_wall_fraction |-> wf,
      glass_type |-> g[1], glazing_layers |-> g[2],
      window_frame_type |-> "ALUMINUM",
      Rroof |-> Fx(30), Rwall |-> Fx(19), Rfloor |-> Fx(22), Rdoors |-> Fx(5),
      ceiling_height |-> Fx(8), aspect_ratio |-> Fx(1),
      exterior_ceiling_fraction |-> Fx(1), exterior_floor_fraction |-> 0,
      interior_exterior_wall_ratio |-> 3 * Half, WETC |-> 6 * (SCALE \div 10),
      window_wall_ratio |-> 15 * (SCALE \div 100),
      gross_air_heat_capacity |-> 74 * (SCALE \div 1000),
      interior_heat_transfer_coefficient |-> 146 * (SCALE \div 100)] :
        sq \in Sqfts, st \in StoriesSet, d \in DoorCounts, da_ \in DoorAreas,
        tm \in ThermalMasses, wf \in WallFractions, g \in Glazings}

\* a configuration the claim calls valid: positive sqft and stories,
\* non-negative door count, R-values, fractions and heat capacities
ValidStructure(a) ==
    /\ a.sqft > 0 /\ a.stories > 0 /\ a.doors >= 0
    /\ \A k \in {"Rroof", "Rwall", "Rfloor", "Rdoors", "exterior_ceiling_fraction",
                 "exterior_floor_fraction", "exterior_wall_fraction",
                 "thermal_mass_per_floor_area", "gross_air_heat_capacity"} : a[k] >= 0

StructInit ==
    /\ built = <<>>
    /\ structure_model = <<>>
    /\ system_model = <<>>
    /\ cache_output = <<>>
    /\ states = <<>>
    /\ asset_model = <<>>
    /\ environment_model = <<>>
    /\ temperatures = <<>>
    /\ forecasts = <<>>
    /\ rt = <<>>
    /\ da = <<>>
    /\ schedule = <<>>
    /\ nsim = 0
    /\ trail = <<>>
    /\ op = [name |-> "init", exc |-> "", attributes |-> <<>>, pre |-> <<>>]

\* an operation on the structure model ended: what it was given, whether it
\* raised, and the ETP parameters before it
StructDone(name, attributes, r, pre) ==
    /\ structure_model' = IF name = "__init__" /\ r.exc # "" THEN <<>> ELSE r.obj
    /\ op' = [name |-> name, exc |-> r.exc, attributes |-> attributes, pre |-> pre]
    /\ UNCHANGED <<states, asset_model, environment_model, temperatures, forecasts, rt, da,
                   schedule, built, system_model, cache_output, nsim, trail>>

\* structure_model = HVACDSOTStructureModel(attributes); a constructor that
\* raises leaves no object
ConstructStructure ==
    /\ structure_model = <<>>
    /\ op.name = "init"
    /\ \E attributes \in StructureAttributes :
          StructDone("__init__", attributes, HVACDSOTStructureModel(attributes), <<>>)

\* structure_model.calc_structure_areas()
CalcStructureAreas ==
    /\ structure_model # <<>>
    /\ op.name = "__init__"
    /\ StructDone("calc_structure_areas", op.attributes,
                  [exc |-> "", obj |-> calc_structure_areas(structure_model)],
                  structure_model.etp_structure_params)

\* structure_model.calc_structure_ETP_parameters(), again
CalcStructureETPParameters ==
    /\ structure_model # <<>>
    /\ op.name \in {"__init__", "calc_structure_areas"}
    /\ StructDone("calc_structure_ETP_parameters", op.attributes,
                  calc_structure_ETP_parameters(structure_model),
                  structure_model.etp_structure_params)

StructNext == ConstructStructure \/ CalcStructureAreas \/ CalcStructureETPParameters

SpecStruct == StructInit /\ [][StructNext]_vars

\* C21: for every valid structure configuration the constructor and every
\* recomputation end with UA, CA, HM and CM all non-negative, and a
\* recomputation from the same inputs leaves the four values as they were.
C21_EtpParametersNonNegative ==
    (op.name \in {"__init__", "calc_structure_areas", "calc_structure_ETP_parameters"}
        /\ ValidStructure(op.attributes))
    => /\ op.exc = ""
       /\ structure_model # <<>>
       /\ structure_model.etp_structure_params.UA >= 0
       /\ structure_model.etp_structure_params.CA >= 0
       /\ structure_model.etp_structure_params.HM >= 0
       /\ structure_model.etp_structure_params.CM >= 0
       /\ (op.name = "calc_structure_ETP_parameters"
              => structure_model.etp_structure_params = op.pre)

\* ------------------------------------------------------------------------
\* HVACDSOTSystemModel: the design capacities
\* ------------------------------------------------------------------------
\* math.ceil(x / step) * step of a fixed-point x and a whole step
CeilToMultiple(x, step) == (0 - ((0 - x) \div Fx(step))) * Fx(step)

\* the local design_cooling_capacity of calc_design_capacities
RawCoolingCapacity(self, etp_structure_params, environment_model_, structure_model_) ==
    FMul(FMul(Fx(1) + self.over_sizing_factor,
              Fx(1) + environment_model_.latent_load_fraction),
         FMul(etp_structure_params.UA,
              self.cooling_design_temperature - self.design_cooling_setpoint))
      + self.design_internal_gains
      + FMul(self.design_peak_solar, structure_model_.solar_heatgain_factor)

\* the local design_heating_capacity of calc_design_capacities
RawHeatingCapacity(self, etp_structure_params) ==
    FMul(FMul(Fx(1) + self.over_sizing_factor, etp_structure_params.UA),
         self.design_heating_setpoint - self.heating_design_temperature)

\* HVACDSOTSystemModel.calc_design_capacities: the heat-pump branch assigns
\* the local design_cooling_capacity, which is the value before rounding
calc_design_capacities(self, etp_structure_params, heating_system_type, environment_model_, structure_model_) ==
    LET raw == RawCoolingCapacity(self, etp_structure_params, environment_model_,
                                  structure_model_)
    IN  [self EXCEPT
            !.design_cooling_capacity = CeilToMultiple(raw, 6000),
            !.design_heating_capacity =
                IF heating_system_type = "HeatingSystemType.HEAT_PUMP"
                THEN raw
                ELSE CeilToMultiple(RawHeatingCapacity(self, etp_structure_params), 10000)]

\* HVACDSOTSystemModel.__init__: the attributes of the dictionary; the
\* capacities are None until they are calculated
HVACDSOTSystemModel(attributes) ==
    [k \in DOMAIN attributes \cup {"heating_capacity", "design_heating_capacity",
                                   "design_cooling_capacity"}
        |-> IF k \in {"heating_capacity", "design_heating_capacity"} THEN None
            ELSE IF k \in DOMAIN attributes THEN attributes[k]
            ELSE None]

\* the systems and houses the capacities are designed for
OverSizingFactors == {0, 2 * (SCALE \div 10)}

DesignInternalGains == {0, Fx(3000), Fx(4200)}

HeatingDesignTemperatures == {Fx(0), Fx(30)}

LatentLoadFractions == {0, 3 * (SCALE \div 10)}

SystemAttributes ==
    {[over_sizing_factor |-> o, design_internal_gains |-> g,
      heating_design_temperature |-> h, cooling_design_temperature |-> Fx(95),
      design_cooling_setpoint |-> Fx(75), design_heating_setpoint |-> Fx(70),
      design_peak_solar |-> Fx(195)] :
        o \in OverSizingFactors, g \in DesignInternalGains, h \in HeatingDesignTemperatures}

\* houses whose constructor does not raise
SizedStructures ==
    {a \in StructureAttributes :
        /\ a.exterior_wall_fraction # 0 /\ a.doors = 0 /\ a.single_door_area = 0
        /\ a.glass_type = "OTHER" /\ a.thermal_mass_per_floor_area = Fx(2)}

CapInit ==
    /\ built = <<>>
    /\ \E a \in SizedStructures : structure_model = HVACDSOTStructureModel(a).obj
    /\ \E a \in SystemAttributes : system_model = HVACDSOTSystemModel(a)
    /\ \E l \in LatentLoadFractions : environment_model = [latent_load_fraction |-> l]
    /\ cache_output = <<>>
    /\ states = <<>>
    /\ asset_model = <<>>
    /\ temperatures = <<>>
    /\ forecasts = <<>>
    /\ rt = <<>>
    /\ da = <<>>
    /\ schedule = <<>>
    /\ nsim = 0
    /\ trail = <<>>
    /\ op = [name |-> "init", heating_system_type |-> "", raw_cooling |-> 0, raw_heating |-> 0]

\* system_model.calc_design_capacities(structure_model.etp_structure_params,
\* heating_system_type, environment_model, structure_model)
CalcDesignCapacities ==
    /\ op.name = "init"
    /\ \E heating_system_type \in HeatingSystemType :
          /\ system_model' = calc_design_capacities(system_model,
                                 structure_model.etp_structure_params, heating_system_type,
                                 environment_model, structure_model)
          /\ op' = [name |-> "calc_design_capacities",
                    heating_system_type |-> heating_system_type,
                    raw_cooling |-> RawCoolingCapacity(system_model,
                                        structure_model.etp_structure_params,
                                        environment_model, structure_model),
                    raw_heating |-> RawHeatingCapacity(system_model,
                                        structure_model.etp_structure_params)]
    /\ UNCHANGED <<states, asset_model, environment_model, temperatures, forecasts, rt, da,
                   schedule, built, structure_model, cache_output, nsim, trail>>

CapNext == CalcDesignCapacities

SpecCap == CapInit /\ [][CapNext]_vars

\* capacity is raw rounded up to the next multiple of step
RoundedUp(capacity, raw, step) ==
    /\ capacity % Fx(step) = 0
    /\ capacity >= raw
    /\ capacity < raw + Fx(step)

\* C24: after calc_design_capacities the design cooling capacity is the raw
\* value rounded up to the next multiple of 6000; for a heat pump the design
\* heating capacity equals the design cooling capacity, and for every other
\* heating type it is its own raw value rounded up to the next multiple of
\* 10000.
C24_HeatPumpHeatingEqualsCooling ==
    op.name = "calc_design_capacities"
    => /\ RoundedUp(system_model.design_cooling_capacity, op.raw_cooling, 6000)
       /\ IF op.heating_system_type = "HeatingSystemType.HEAT_PUMP"
          THEN system_model.design_heating_capacity = system_model.design_cooling_capacity
          ELSE RoundedUp(system_model.design_heating_capacity, op.raw_heating, 10000)

\* ------------------------------------------------------------------------
\* schedule_server.DataProxy: the served schedules and their cache
\* ------------------------------------------------------------------------
\* the schedules schedule_server has loaded; "s1" is also the key the proxy
\* forms for column 1 of "s"
ScheduleNames == {"s", "s1"}

ColNums == {1}

\* requested times (hours of the year) and window lengths (hours)
RequestTimes == {1, 2}

ProxyWindows == {1, 2}

\* sch_df_dict[name]: the value of a column at an hour, and the value of the
\* column 'data' at a minute
Cell(name, hour, col_num) == (IF name = "s" THEN 100 ELSE 200) + 10 * hour + col_num

MinuteData(name, minute) == Fx((IF name = "s" THEN 1000 ELSE 2000) + minute)

RECURSIVE SumMinutes(_, _, _)
SumMinutes(name, first, count) ==
    IF count = 0 THEN 0
    ELSE MinuteData(name, first) + SumMinutes(name, first + 1, count - 1)

\* cache_output as schedule_server leaves it: [0, 0] for every schedule
RegisteredCache == [n \in ScheduleNames |-> <<0, [kind |-> "int", rows |-> <<>>]>>]

\* cache[1][col_num] for what the cache entry holds: a column of a frame, an
\* item of a row, an element of an array of means
Item(data, col_num) ==
    CASE data.kind = "frame" ->
            [exc |-> "", val |-> [i \in DOMAIN data.rows |-> data.rows[i][col_num]]]
      [] data.kind = "row" -> [exc |-> "", val |-> <<data.rows[1][col_num]>>]
      [] data.kind = "means" ->
            IF col_num + 1 \in DOMAIN data.rows
            THEN [exc |-> "", val |-> <<data.rows[col_num + 1]>>]
            ELSE [exc |-> "IndexError", val |-> <<>>]
      [] OTHER -> [exc |-> "TypeError", val |-> <<>>]

\* the entry of key idx, created as [0, 0] when the key is new
EntryOf(cache, idx) ==
    IF idx \in DOMAIN cache THEN cache[idx] ELSE RegisteredCache["s"]

\* cache with the entry of key idx set
WithEntry(cache, idx, entry) ==
    [k \in DOMAIN cache \cup {idx} |-> IF k = idx THEN entry ELSE cache[k]]

\* DataProxy.forecasting_pv_schedules: [cache, exc, val]
forecasting_pv_schedules(cache, name, time, window_length, col_num) ==
    LET idx == name \o ToString(col_num)
        old == EntryOf(cache, idx)
        new == IF old[1] # time
               THEN <<time, [kind |-> "frame",
                             rows |-> [i \in 1..window_length |->
                                          [c \in ColNums |-> Cell(name, time + i - 1, c)]]]>>
               ELSE old
        r == Item(new[2], col_num)
    IN  [cache |-> WithEntry(cache, idx, new), exc |-> r.exc, val |-> r.val]

\* the hourly means of forecasting_schedules: the minutes from time to
\* time + len_forecast, both included, without the last one, by sixties
HourlyMeans(name, time, len_forecast) ==
    [i \in 1..len_forecast |-> RDiv(SumMinutes(name, 60 * (time + i - 1), 60), 60)]

\* DataProxy.forecasting_schedules: [cache, exc, val]; the key is the name
\* and must be in the cache
forecasting_schedules(cache, name, time, len_forecast) ==
    IF name \notin DOMAIN cache THEN [cache |-> cache, exc |-> "KeyError", val |-> <<>>]
    ELSE LET old == cache[name]
             new == IF old[1] # time
                    THEN <<time, [kind |-> "means",
                                  rows |-> HourlyMeans(name, time, len_forecast)]>>
                    ELSE old
         IN  [cache |-> WithEntry(cache, name, new), exc |-> "",
              val |-> IF new[2].kind = "frame"
                      THEN [i \in DOMAIN new[2].rows |-> new[2].rows[i][1]]
                      ELSE IF new[2].kind = "row" THEN <<new[2].rows[1][1]>>
                      ELSE new[2].rows]

\* DataProxy.read_tou_schedules: [cache, exc, val]
read_tou_schedules(cache, name, time, col_num) ==
    LET idx == name \o ToString(col_num)
        old == EntryOf(cache, idx)
        new == IF old[1] # time
               THEN <<time, [kind |-> "row",
                             rows |-> <<[c \in ColNums |-> Cell(name, time, c)]>>]>>
               ELSE old
        r == Item(new[2], col_num)
    IN  [cache |-> WithEntry(cache, idx, new), exc |-> r.exc, val |-> r.val]

ProxyInit ==
    /\ built = <<>>
    /\ structure_model = <<>>
    /\ system_model = <<>>
    /\ cache_output = RegisteredCache
    /\ states = <<>>
    /\ asset_model = <<>>
    /\ environment_model = <<>>
    /\ temperatures = <<>>
    /\ forecasts = <<>>
    /\ rt = <<>>
    /\ da = <<>>
    /\ schedule = <<>>
    /\ nsim = 0
    /\ trail = <<>>
    /\ op = [name |-> "init", exc |-> "", val |-> <<>>, uncached |-> <<>>, reused |-> FALSE,
             request |-> <<>>, idx |-> "", filled_by |-> <<>>]

\* a request was served: r is what it returned and left in the cache, u what
\* the same request returns from the cache as schedule_server leaves it;
\* idx is the key it used, and filled_by the request that filled its entry
Served(name, request, idx, r, u) ==
    /\ cache_output' = r.cache
    /\ op' = [name |-> name, exc |-> r.exc, val |-> r.val, uncached |-> u.val,
              reused |-> idx \in DOMAIN cache_output /\ cache_output[idx] = r.cache[idx]
                            /\ cache_output[idx][1] # 0,
              request |-> request, idx |-> idx,
              filled_by |-> IF idx \in DOMAIN cache_output /\ cache_output[idx] = r.cache[idx]
                            THEN op.filled_by
                            ELSE [k \in DOMAIN op.filled_by \cup {idx} |->
                                     IF k = idx THEN <<name>> \o request
                                     ELSE op.filled_by[k]]]
    /\ UNCHANGED <<states, asset_model, environment_model, temperatures, forecasts, rt, da,
                   schedule, built, structure_model, system_model, nsim, trail>>

ForecastingPvSchedules ==
    \E name \in ScheduleNames, time \in RequestTimes, w \in ProxyWindows, c \in ColNums :
        Served("forecasting_pv_schedules", <<name, time, w>>, name \o ToString(c),
               forecasting_pv_schedules(cache_output, name, time, w, c),
               forecasting_pv_schedules(RegisteredCache, name, time, w, c))

ForecastingSchedules ==
    \E name \in ScheduleNames, time \in RequestTimes, w \in ProxyWindows :
        Served("forecasting_schedules", <<name, time, w>>, name,
               forecasting_schedules(cache_output, name, time, w),
               forecasting_schedules(RegisteredCache, name, time, w))

ReadTouSchedules ==
    \E name \in ScheduleNames, time \in RequestTimes, c \in ColNums :
        Served("read_tou_schedules", <<name, time, 1>>, name \o ToString(c),
               read_tou_schedules(cache_output, name, time, c),
               read_tou_schedules(RegisteredCache, name, time, c))

ProxyNext == ForecastingPvSchedules \/ ForecastingSchedules \/ ReadTouSchedules

SpecProxy == ProxyInit /\ [][ProxyNext]_vars

\* C25: every DataProxy request returns what an uncached lookup with the
\* same series name, requested time and window length returns, and a cache
\* entry is reused only for a request of the same method, series, time and
\* window length as the one that filled it.
C25_CacheCoherent ==
    op.name # "init"
    => /\ op.exc = ""
       /\ op.val = op.uncached
       /\ op.reused => op.filled_by[op.idx] = <<op.name>> \o op.request

\* ------------------------------------------------------------------------
\* The real-time bid as a function of its inputs
\* ------------------------------------------------------------------------
\* the strategy with its configuration and the attributes it was given, and
\* nothing left from earlier periods
WithoutHistory(self) ==
    LET new == HVACDSOTRTBiddingStrategy(self, self.period)
        given == {"price_forecast_0", "B_ETP_ON"} \cap DOMAIN self
    IN  [k \in DOMAIN new \cup given |-> IF k \in given THEN self[k] ELSE new[k]]

\* the day-ahead strategy with the same bids and room temperatures, and the
\* previous quantities it was constructed with
AsConstructed(d) ==
    IF d.bid_da = <<>> THEN DaEmpty
    ELSE [d EXCEPT !.previous_Q_DA = DaSupported.previous_Q_DA,
                   !.previous_T_DA = DaSupported.previous_T_DA]

\* what a form_rt_bid call ends with: the exception, or the bid returned
Outcome(r) ==
    [exc |-> r.exc,
     bid |-> IF r.exc = "" /\ HasAttr(r.rt, "bid_rt") THEN r.rt.bid_rt ELSE <<>>]

\* the form_rt_bid call the agent is about to make ends as it would on a
\* strategy without history
SameAsWithoutHistory ==
    op.name = "calc_all_heat_flows" =>
    Outcome(form_rt_bid(rt, da, asset_model, states[1], temperatures, forecasts))
        = Outcome(form_rt_bid(WithoutHistory(rt), AsConstructed(da), asset_model, states[1],
                              temperatures, forecasts))

MaxScenarioSteps == 6

\* cooling mode, setpoint 75, deadband 2, indoor and mass temperature 74,
\* HVAC off, outside temperature 95; Qa_ON, Qa_OFF and Qm are the zeros of a
\* new environment model
ScenarioInit ==
    /\ states = [i \in {1} |->
                    SetAttr(SetAttr(SetAttr(SetAttr(HVACDSOTAssetState_defaults,
                        "indoor_air_temp", Fx(74)), "mass_temperature", Fx(74)),
                        "hvac_on", FALSE), "thermostat_mode", COOLING)]
    /\ environment_model = EnvironmentModel(Fx(95))
    /\ asset_model = HVACDSOTAssetModel("HeatingSystemType.HEAT_PUMP", EtpUnit,
                                        EnvironmentModel(Fx(95)))
    /\ temperatures = TemperaturesCfg
    /\ forecasts = DSOTForecasts(<<Fx(30), Fx(50), Fx(20)>>)
    /\ rt = HVACDSOTRTBiddingStrategy(RtCfg, RtCfg.period)
    /\ da = DaEmpty
    /\ schedule = HVACSchedule(ScheduleCfg)
    /\ built = <<>>
    /\ structure_model = <<>>
    /\ system_model = <<>>
    /\ cache_output = <<>>
    /\ nsim = 0
    /\ trail = [i \in {1} |-> <<>>]
    /\ op = Done("init", "", 1, 0)

\* the matrices are calculated once, before the first step
ScenarioCalcAEI == op.name = "init" /\ CalcAEI

\* one more small step
ScenarioStep ==
    /\ op.name # "init"
    /\ nsim < MaxScenarioSteps
    /\ \E dt \in TimeSteps : SimulateStep(1, dt)

ScenarioNext == ScenarioCalcAEI \/ ScenarioStep

\* the caller keeps stepping
SpecScenario == ScenarioInit /\ [][ScenarioNext]_vars /\ WF_vars(ScenarioNext)

\* the upper edge of the cooling deadband
UpperEdge == temperatures.cooling_setpoint + HalfBand(temperatures)

\* C23: in the scenario, repeated small steps eventually leave the indoor
\* temperature above 76 with hvac_on True, and hvac_on is False after every
\* step that leaves the temperature at or below 76.
C23_CoolingStartsAboveUpperEdge ==
    /\ <>(states[1].indoor_air_temp > UpperEdge /\ states[1].hvac_on = TRUE)
    /\ [](states[1].indoor_air_temp <= UpperEdge => states[1].hvac_on = FALSE)

\* ------------------------------------------------------------------------
\* The matrices the propagation uses
\* ------------------------------------------------------------------------
\* the last operation propagated the thermal state: a simulate_time_step
\* that returned, or a form_rt_bid whose lookahead ran to its end
Propagated ==
    /\ op.exc = ""
    /\ \/ op.name = "simulate_time_step"
       \/ op.name = "form_rt_bid" /\ Len(op.ran) = 3

\* the forcing vector calc_AEI writes for the heat flow Qa into the air
ForcingVector(Qa) ==
    <<FDiv(FMul(asset_model.UA, environment_model.outside_air_temperature), asset_model.CA)
        + FDiv(Qa, asset_model.CA),
      FDiv(environment_model.Qm, asset_model.CM)>>

\* C26: whenever simulate_time_step or the lookahead of form_rt_bid has
\* propagated the thermal state, AEI is the inverse of A_ETP and not the zero
\* matrix of the constructor, and B_ETP_ON / B_ETP_OFF are the forcing vectors
\* of the environment's Qa_ON / Qa_OFF and Qm as calc_all_heat_flows left them.
C26_MatricesConsistent ==
    Propagated
    => /\ asset_model.AEI # Zeros22
       /\ Det22(asset_model.A_ETP) # 0
       /\ asset_model.AEI = Inv22(asset_model.A_ETP)
       /\ asset_model.B_ETP_ON = ForcingVector(environment_model.Qa_ON)
       /\ asset_model.B_ETP_OFF = ForcingVector(environment_model.Qa_OFF)
\* ------------------------------------------------------------------------
\* create_bid returned a bid for a quantity curve whose values differ
SlopedCurveBid ==
    /\ op.name = "create_bid"
    /\ op.exc = ""
    /\ rt.RT_Q_min # rt.RT_Q_max

\* Qopt_DA lies strictly between the curve's extremes
OptimumInside == rt.RT_Q_min < rt.Qopt_DA /\ rt.Qopt_DA < rt.RT_Q_max

\* the price at quantity Q on the line through (Qopt_DA, price_forecast_0)
\* whose slope is delta_DA_price / -hvac_kW * (1 + ProfitMargin_slope / 100)
MarginalPrice(Q) ==
    rt.price_forecast_0
        + FMul(FMul(FDiv(MaxOf(forecasts.price) - MinOf(forecasts.price),
                         0 - states[1].hvac_kW),
                    SCALE + FDiv(rt.ProfitMargin_slope, Fx(100))),
               Q - rt.Qopt_DA)

\* equal up to the rounding of the last digits of the fixed-point products
Near(a, b) == Abs(a - b) <= 2

\* the quantities of the four points: the kink at Qopt_DA or the single segment
ShapeQuantities ==
    IF OptimumInside
    THEN <<rt.RT_Q_min, rt.Qopt_DA, rt.Qopt_DA, rt.RT_Q_max>>
    ELSE <<rt.RT_Q_min, rt.RT_Q_min, rt.RT_Q_max, rt.RT_Q_max>>

\* the prices of the four points: on the line, points 0 and 1 raised and
\* points 2 and 3 lowered by the intercept margin
ShapePrices ==
    [i \in 1..4 |-> MarginalPrice(ShapeQuantities[i])
                        + (IF i <= 2 THEN ProfitMargin ELSE 0 - ProfitMargin)]

LookaheadDone ==
    /\ op.name = "form_rt_bid"
    /\ Len(op.ran) = 3
    /\ Len(op.starts) = npt

\* the energy of a simulation over the period that starts from the asset
\* state and switches about `setpoint`
SimulatedEnergy(setpoint) ==
    LookaheadSteps(1, <<states[1].indoor_air_temp, states[1].mass_temperature>>,
                   states[1].hvac_on, 0, setpoint, rt, asset_model, states[1],
                   temperatures,
                   StepMatrix(asset_model.A_ETP, asset_model.AEI,
                              RDiv(RtHorizon(rt), 10))).Q

\* candidate k - 1 lies (k - 3) quarters of the slider from Topt_DA
EvenlySpread(k) == 4 * (rt.temp_curve[k] - rt.Topt_DA) = (k - 3) * rt.slider

\* the edge at which the unit, in its present on/off state, would switch
\* lies at the present indoor temperature
PinnedToIndoor(T) ==
    IF \/ (states[1].thermostat_mode = COOLING /\ states[1].hvac_on)
       \/ (states[1].thermostat_mode # COOLING /\ ~states[1].hvac_on)
    THEN 2 * (T - states[1].indoor_air_temp) = temperatures.deadband
    ELSE 2 * (states[1].indoor_air_temp - T) = temperatures.deadband

\* C28 (as stated): the lookahead evaluates exactly 5 candidate temperatures,
\* candidate i (i = 0..4) being Topt_DA + (i - 2)/4 * slider: equally spaced,
\* the middle one Topt_DA, and each candidate's simulated hysteresis uses its
\* own candidate temperature as setpoint.
C28_CandidatesEvenlySpread ==
    LookaheadDone =>
        /\ Len(rt.temp_curve) = 5
        /\ Len(rt.quantity_curve) = 5
        /\ \A k \in 1..5 : EvenlySpread(k)
        /\ \A k \in 1..5 : rt.quantity_curve[k] = SimulatedEnergy(rt.temp_curve[k])

\* C28 (amended): the lookahead evaluates exactly 5 candidate temperatures;
\* candidates 1..4 are Topt_DA + (i - 2)/4 * slider, the middle one Topt_DA,
\* and candidate 0 is indoor_air_temp + deadband/2 when the unit is cooling
\* and on or not cooling and off, indoor_air_temp - deadband/2 otherwise;
\* each candidate's simulated hysteresis uses its own candidate temperature
\* as setpoint.
C28_CandidatesSpreadButFirst ==
    LookaheadDone =>
        /\ Len(rt.temp_curve) = 5
        /\ Len(rt.quantity_curve) = 5
        /\ \A k \in 2..5 : EvenlySpread(k)
        /\ PinnedToIndoor(rt.temp_curve[1])
        /\ \A k \in 1..5 : rt.quantity_curve[k] = SimulatedEnergy(rt.temp_curve[k])

\* a lookahead with a positive slider whose first candidate is off the even
\* spread and whose candidates gave different energies
C28_Witness ==
    /\ LookaheadDone
    /\ rt.slider > 0
    /\ ~EvenlySpread(1)
    /\ rt.temp_curve[3] = rt.Topt_DA
    /\ rt.temp_curve[2] < rt.temp_curve[3]
    /\ \E j, k \in 1..5 : rt.quantity_curve[j] # rt.quantity_curve[k]
\* ------------------------------------------------------------------------
\* the interpolation over consecutive real-time periods
\* ------------------------------------------------------------------------
MaxRampPeriods == 6

\* day-ahead results the ramp is run on: slot 0 above, at and below the
\* previous values
RampDas ==
    { DaSupported,
      [bid_da |-> <<FlatSlot(Fx(4)), FlatSlot(Fx(2))>>,
       temp_room |-> <<76400, Fx(74)>>, previous_Q_DA |-> Fx(1), previous_T_DA |-> Fx(73)],
      [bid_da |-> <<FlatSlot(SCALE \div 2), FlatSlot(Fx(2))>>,
       temp_room |-> <<Fx(71), Fx(74)>>, previous_Q_DA |-> Fx(2), previous_T_DA |-> Fx(75)] }

\* the agent as constructed, cooling, with a measurement in its asset state
RampInit ==
    \E d \in RampDas, on \in BOOLEAN, interpolation \in BOOLEAN :
        /\ states = [i \in {1} |->
                        [HVACDSOTAssetState_defaults EXCEPT
                            !.indoor_air_temp = Fx(74), !.mass_temperature = Fx(74),
                            !.hvac_kW = Fx(3), !.hvac_on = on, !.thermostat_mode = COOLING]]
        /\ environment_model = EnvironmentModel(Fx(95))
        /\ asset_model = HVACDSOTAssetModel("HeatingSystemType.HEAT_PUMP", EtpUnit,
                                            EnvironmentModel(Fx(95)))
        /\ temperatures = TemperaturesCfg
        /\ forecasts = DSOTForecasts(<<Fx(30), Fx(50), Fx(20)>>)
        /\ rt = HVACDSOTRTBiddingStrategy([RtCfg EXCEPT !.interpolation = interpolation],
                                          RtCfg.period)
        /\ da = d
        /\ schedule = HVACSchedule(ScheduleCfg)
        /\ built = <<>>
        /\ structure_model = <<>>
        /\ system_model = <<>>
        /\ cache_output = <<>>
        /\ nsim = 0
        /\ trail = [i \in {1} |-> <<>>]
        /\ op = Done("init", "", 1, 0)

\* the matrices are calculated before the first period, or never
RampCalcAEI == op.name = "init" /\ CalcAEI

\* the attributes are given before the first period, or never
RampGiveAttrs == op.name \in {"init", "calc_AEI"} /\ GiveAttrs

\* the real-time periods run so far: <<"form_rt_bid", exception, previous_Q_DA
\* and previous_T_DA before the call>>
RampPeriods == SelectSeq(trail[1], LAMBDA e : e[1] = "form_rt_bid")

RampReturned(r) ==
    /\ rt' = r.rt
    /\ da' = r.da
    /\ states' = [states EXCEPT ![1] = r.asset_state]
    /\ trail' = [trail EXCEPT ![1] =
                    Append(@, <<"form_rt_bid", r.exc, da.previous_Q_DA, da.previous_T_DA>>)]
    /\ op' = [Done("form_rt_bid", r.exc, 1, 0) EXCEPT
                !.ran = r.ran, !.starts = r.starts, !.flips = r.flips]
    /\ UNCHANGED <<structure_model, system_model, cache_output, schedule, built, asset_model,
                   environment_model, temperatures, forecasts, nsim>>

\* one more real-time period: rt_bidding_strategy.form_rt_bid()
RampPeriod ==
    /\ Len(RampPeriods) < MaxRampPeriods
    /\ RampReturned(form_rt_bid(rt, da, asset_model, states[1], temperatures, forecasts))

RampNext ==
    \/ RampCalcAEI
    \/ RampGiveAttrs
    \/ RampPeriod

SpecRamp == RampInit /\ [][RampNext]_vars

\* k periods were run and each of them returned its bid
RanPeriods(k) ==
    /\ op.name = "form_rt_bid"
    /\ Len(RampPeriods) = k
    /\ \A i \in 1..k : RampPeriods[i][2] = ""

\* v is start + (k/6) * (target - start), up to half a thousandth per period
OnRamp(v, start, target, k) == Abs(6 * (v - start) - k * (target - start)) <= 3 * k

\* C29: with interpolation enabled and RT_minute_count_interpolation = 0 at
\* the start, after k consecutive RT periods (k = 1..6), each of which
\* returned its bid, Qopt_DA equals
\* previous_Q_DA0 + (k/6) * (DA slot-0 quantity - previous_Q_DA0), likewise
\* Topt_DA, reaching the slot-0 values after six periods; with interpolation
\* disabled Qopt_DA and Topt_DA are the slot-0 lookups and previous_Q_DA /
\* previous_T_DA are left unchanged.
C29_LinearRamp ==
    \A k \in 1..6 :
        RanPeriods(k) =>
            IF rt.interpolation
            THEN /\ rt.RT_minute_count_interpolation = 5 * k
                 /\ OnRamp(rt.Qopt_DA, RampPeriods[1][3], da.bid_da[1][2][1], k)
                 /\ OnRamp(rt.Topt_DA, RampPeriods[1][4], da.temp_room[1], k)
                 /\ da.previous_Q_DA = rt.Qopt_DA
                 /\ da.previous_T_DA = rt.Topt_DA
            ELSE /\ rt.Qopt_DA = da.bid_da[1][2][1]
                 /\ rt.Topt_DA = da.temp_room[1]
                 /\ da.previous_Q_DA = RampPeriods[1][3]
                 /\ da.previous_T_DA = RampPeriods[1][4]

\* six periods with interpolation took the optimum from previous values
\* below slot 0 up to slot 0, passing half way after three
C29_Witness ==
    /\ RanPeriods(6)
    /\ rt.interpolation
    /\ rt.RT_minute_count_interpolation = 30
    /\ RampPeriods[1][3] + Fx(1) < da.bid_da[1][2][1]
    /\ Abs(rt.Qopt_DA - da.bid_da[1][2][1]) <= 3
    /\ Abs(rt.Topt_DA - da.temp_room[1]) <= 3
    /\ Abs(2 * RampPeriods[4][3] - RampPeriods[1][3] - da.bid_da[1][2][1]) <= 6
    /\ op.flips > 0
\* ------------------------------------------------------------------------
\* create_bid returned a bid for a unit that draws power, with a profit
\* margin slope of at least -100 and a non-negative margin intercept
DemandBid ==
    /\ op.name = "create_bid"
    /\ op.exc = ""
    /\ states[1].hvac_kW > 0
    /\ MaxOf(forecasts.price) - MinOf(forecasts.price) >= 0
    /\ rt.ProfitMargin_slope >= 0 - Fx(100)
    /\ rt.ProfitMargin_intercept >= 0

\* C30: every bid returned by create_bid has non-increasing prices
\* p0 >= p1 >= p2 >= p3, in the kinked, the single-segment and the
\* Q_min = Q_max branch and after clamping, whenever hvac_kW > 0, the
\* forecast price delta is >= 0, ProfitMargin_slope >= -100 and
\* ProfitMargin_intercept >= 0.
C30_PricesNonIncreasing ==
    DemandBid => \A i \in 1..3 : rt.bid_rt[i][2] >= rt.bid_rt[i + 1][2]

\* a kinked bid whose four prices fall strictly and lie inside (0, price_cap)
C30_Witness ==
    /\ DemandBid
    /\ rt.RT_Q_min < rt.Qopt_DA
    /\ rt.Qopt_DA < rt.RT_Q_max
    /\ rt.price_cap > rt.bid_rt[1][2]
    /\ rt.bid_rt[1][2] > rt.bid_rt[2][2]
    /\ rt.bid_rt[2][2] > rt.bid_rt[3][2]
    /\ rt.bid_rt[3][2] > rt.bid_rt[4][2]
    /\ rt.bid_rt[4][2] > 0

====
